---- MODULE Spec2Model ----
(***************************************************************************)
(* JSON2TOON: the codec (AdvancedTOONConverter), the pattern/strategy     *)
(* engine (AdvancedPatternAnalyzer) and the tool server (JSON2TOONServer), *)
(* modelled from src/src.                                                  *)
(*                                                                         *)
(* Python values are modelled as tagged records:                           *)
(*   None  [t |-> "null"]             bool  [t |-> "bool", b |-> TRUE]      *)
(*   int   [t |-> "num", n |-> 1]     str   [t |-> "str",  s |-> "abc"]     *)
(*   list  [t |-> "arr", a |-> <<..>>]                                     *)
(*   dict  [t |-> "obj", o |-> << <<key, value>>, .. >>]                   *)
(* A dict keeps its insertion order, as Python dicts do; keys are unique.  *)
(* A str holding base64(zlib(text)) is [t |-> "zstr", z |-> text].         *)
(* A JSON text is [t |-> "text", kind |-> "json", tree |-> value, ..]:     *)
(* json.dumps and                                                          *)
(* json.loads are the standard library's and are inverse to each other on  *)
(* ordered trees, so two texts are byte-identical iff their ordered trees  *)
(* are equal.                                                              *)
(***************************************************************************)
EXTENDS Integers, Sequences, FiniteSets, TLC

VARIABLES
    \* fields of each AdvancedTOONConverter instance
    level, ref_cache, ref_counter, string_dict, string_counter, metrics,
    \* the sequential caller: the document or text it holds, its last
    \* operation, the exception that operation raised, the
    \* document encoded, the text json_to_toon returned, the text returned by
    \* the json_to_toon call before it, the text given to toon_to_json and the
    \* text toon_to_json returned
    input, op, exc, data, toon, prev_toon, fed, json_out,
    \* the concurrent callers: position in json_to_toon, the converter called,
    \* the locals data and toon_data, the returned text
    pc, t_conv, t_data, t_toon_data, t_ret,
    \* fields of the AdvancedPatternAnalyzer instance and the value its last
    \* call returned
    detected_patterns, key_frequency, value_type_counts, nesting_depths,
    array_sizes, returned,
    \* the JSON2TOONServer instance: its statistics, and the last call_tool
    \* call (tool name, arguments, the list returned)
    stats, tool, arguments, response

conv_vars == <<level, ref_cache, ref_counter, string_dict, string_counter, metrics>>
seq_vars  == <<input, op, exc, data, toon, prev_toon, fed, json_out>>
thr_vars  == <<pc, t_conv, t_data, t_toon_data, t_ret>>
an_vars   == <<detected_patterns, key_frequency, value_type_counts, nesting_depths,
               array_sizes, returned>>
srv_vars  == <<stats, tool, arguments, response>>
vars == <<conv_vars, seq_vars, thr_vars, an_vars, srv_vars>>

(***************************************************************************)
(* Bounds of the model                                                     *)
(***************************************************************************)
MaxArrLen == 3
MaxLevelArg == 5

(***************************************************************************)
(* Python values                                                           *)
(***************************************************************************)
Null     == [t |-> "null"]
Bool(b)  == [t |-> "bool", b |-> b]
Num(n)   == [t |-> "num", n |-> n]
Str(s)   == [t |-> "str", s |-> s]
Arr(a)   == [t |-> "arr", a |-> a]
Obj(o)   == [t |-> "obj", o |-> o]
ZStr(x)  == [t |-> "zstr", z |-> x]
Raise(e) == [t |-> "raise", e |-> e]

IsNull(v)  == v.t = "null"
IsBool(v)  == v.t = "bool"
IsNum(v)   == v.t = "num"
IsStr(v)   == v.t = "str" \/ v.t = "zstr"
IsList(v)  == v.t = "arr"
IsDict(v)  == v.t = "obj"
IsRaise(v) == v.t = "raise"

(* dict operations on the ordered item sequence *)
Keys(d)   == [i \in 1..Len(d) |-> d[i][1]]
Values(d) == [i \in 1..Len(d) |-> d[i][2]]
DictHas(d, k) == \E i \in 1..Len(d) : d[i][1] = k
DictGet(d, k, default) ==
    IF DictHas(d, k) THEN d[CHOOSE i \in 1..Len(d) : d[i][1] = k][2] ELSE default
DictSet(d, k, v) ==
    IF DictHas(d, k)
    THEN [i \in 1..Len(d) |-> IF d[i][1] = k THEN <<k, v>> ELSE d[i]]
    ELSE Append(d, <<k, v>>)

(* dict(items): a key keeps the position of its first item and the value of
   its last one *)
DictFromItems(items) ==
    LET n == Len(items)
        first == SelectSeq([i \in 1..n |-> i],
                           LAMBDA i : \A j \in 1..(i - 1) : items[j][1] # items[i][1])
        last(k) == CHOOSE i \in 1..n :
                       items[i][1] = k /\ \A j \in (i + 1)..n : items[j][1] # k
    IN  [p \in 1..Len(first) |-> <<items[first[p]][1], items[last(items[first[p]][1])][2]>>]

SeqToSet(s) == {s[i] : i \in 1..Len(s)}

(* the first raised exception in a sequence of evaluated values, if any *)
HasRaise(s) == \E i \in 1..Len(s) : IsRaise(s[i])
FirstRaise(s) == s[CHOOSE i \in 1..Len(s) : IsRaise(s[i]) /\ \A j \in 1..(i - 1) : ~IsRaise(s[j])]
(* F applied to evaluated values, unless evaluating one of them raised *)
Propagate(s, F(_)) == IF HasRaise(s) THEN FirstRaise(s) ELSE F(s)
PropagateOne(v, F(_)) == IF IsRaise(v) THEN v ELSE F(v)

(* [F(x) for x in s], and the elements of s without repetitions, in the order
   of their first occurrence *)
MapSeq(s, F(_)) == [i \in 1..Len(s) |-> F(s[i])]
Indices(s) == [i \in 1..Len(s) |-> i]
Dedup(s) == MapSeq(SelectSeq(Indices(s), LAMBDA i : \A j \in 1..(i - 1) : s[j] # s[i]),
                   LAMBDA i : s[i])

(***************************************************************************)
(* Strings: code-point order, str(int)                                     *)
(***************************************************************************)
ASCII_32_95  == " !\"#$%&'()*+,-./0123456789:;<=>?@ABCDEFGHIJKLMNOPQRSTUVWXYZ[\\]^_"
ASCII_97_126 == "abcdefghijklmnopqrstuvwxyz{|}~"
Char(s, i) == SubSeq(s, i, i)
CodePoint ==
    [c \in {Char(ASCII_32_95, i) : i \in 1..Len(ASCII_32_95)}
             \cup {Char(ASCII_97_126, i) : i \in 1..Len(ASCII_97_126)} |->
        IF \E i \in 1..Len(ASCII_32_95) : Char(ASCII_32_95, i) = c
        THEN 31 + (CHOOSE i \in 1..Len(ASCII_32_95) : Char(ASCII_32_95, i) = c)
        ELSE 96 + (CHOOSE i \in 1..Len(ASCII_97_126) : Char(ASCII_97_126, i) = c)]
Ord(c) == CodePoint[c]
StartsWith(s, p) == Len(s) >= Len(p) /\ SubSeq(s, 1, Len(p)) = p
From(s, i) == SubSeq(s, i + 1, Len(s))

(* x < y on str: at the first position where they differ, or x a proper
   prefix of y *)
CodePointLess(code_point, a, b) == code_point[a] < code_point[b]
LessAt(x, y, i) == CodePointLess(CodePoint, Char(x, i), Char(y, i))
StrLess(x, y) ==
    IF \E i \in 1..Len(x) : i <= Len(y) /\ Char(x, i) # Char(y, i)
    THEN LessAt(x, y, CHOOSE i \in 1..Len(x) :
                         /\ i <= Len(y) /\ Char(x, i) # Char(y, i)
                         /\ SubSeq(x, 1, i - 1) = SubSeq(y, 1, i - 1))
    ELSE Len(x) < Len(y)

RECURSIVE SortedSet(_)
SortedFrom(m, S) == <<m>> \o SortedSet(S \ {m})
SortedSet(S) ==
    IF S = {} THEN <<>>
    ELSE SortedFrom(CHOOSE x \in S : \A y \in S \ {x} : StrLess(x, y), S)

Sorted(s) == SortedSet(SeqToSet(s))

DIGITS == "0123456789"
RECURSIVE IntToStr(_)
IntToStr(n) == IF n < 10 THEN Char(DIGITS, n + 1)
               ELSE IntToStr(n \div 10) \o Char(DIGITS, (n % 10) + 1)

(***************************************************************************)
(* CompressionLevel and the abbreviation tables                            *)
(***************************************************************************)
MINIMAL    == 1
STANDARD   == 2
AGGRESSIVE == 3
EXTREME    == 4
CompressionLevel == {MINIMAL, STANDARD, AGGRESSIVE, EXTREME}

(* the dict literal as written, duplicates included; a later entry for the
   same key replaces the value of the earlier one *)
KEY_ABBREV_LITERAL == <<
    <<"id", "i">>, <<"identifier", "idf">>, <<"uuid", "uid">>, <<"guid", "gid">>,
    <<"name", "n">>, <<"title", "ttl">>, <<"label", "lbl">>, <<"description", "dsc">>,
    <<"type", "t">>, <<"kind", "knd">>, <<"category", "cat">>, <<"class", "cls">>,
    <<"value", "v">>, <<"data", "d">>, <<"content", "cnt">>, <<"text", "txt">>,
    <<"status", "s">>, <<"state", "st">>, <<"enabled", "en">>, <<"disabled", "dis">>,
    <<"active", "act">>, <<"inactive", "inact">>, <<"visible", "vis">>, <<"hidden", "hid">>,
    <<"valid", "vld">>, <<"invalid", "invld">>, <<"pending", "pnd">>, <<"complete", "cmp">>,
    <<"metadata", "meta">>, <<"attributes", "attr">>, <<"properties", "prop">>, <<"configuration", "cfg">>,
    <<"settings", "set">>, <<"options", "opt">>, <<"parameters", "prm">>, <<"arguments", "arg">>,
    <<"flags", "flg">>, <<"timestamp", "ts">>, <<"created_at", "ca">>, <<"updated_at", "ua">>,
    <<"deleted_at", "da">>, <<"modified_at", "ma">>, <<"published_at", "pa">>, <<"created", "crt">>,
    <<"updated", "upd">>, <<"modified", "mod">>, <<"created_by", "cb">>, <<"updated_by", "ub">>,
    <<"modified_by", "mb">>, <<"user", "usr">>, <<"username", "unm">>, <<"email", "eml">>,
    <<"password", "pwd">>, <<"first_name", "fn">>, <<"last_name", "ln">>, <<"full_name", "fnm">>,
    <<"display_name", "dnm">>, <<"nickname", "nnm">>, <<"avatar", "avt">>, <<"profile", "prf">>,
    <<"account", "acc">>, <<"role", "rol">>, <<"permission", "prm">>, <<"phone", "ph">>,
    <<"mobile", "mob">>, <<"telephone", "tel">>, <<"fax", "fx">>, <<"address", "addr">>,
    <<"street", "str">>, <<"city", "cty">>, <<"state", "stt">>, <<"country", "ctry">>,
    <<"postal_code", "pc">>, <<"zip_code", "zc">>, <<"latitude", "lat">>, <<"longitude", "lng">>,
    <<"altitude", "alt">>, <<"coordinates", "coord">>, <<"location", "loc">>, <<"position", "pos">>,
    <<"region", "rgn">>, <<"zone", "zn">>, <<"area", "ar">>, <<"width", "w">>,
    <<"height", "h">>, <<"depth", "d">>, <<"length", "l">>, <<"size", "sz">>,
    <<"weight", "wt">>, <<"volume", "vol">>, <<"capacity", "cap">>, <<"distance", "dst">>,
    <<"duration", "dur">>, <<"quantity", "qty">>, <<"message", "m">>, <<"error", "err">>,
    <<"errors", "errs">>, <<"warning", "wrn">>, <<"success", "suc">>, <<"failure", "fail">>,
    <<"result", "res">>, <<"results", "rslts">>, <<"response", "rsp">>, <<"request", "req">>,
    <<"code", "cd">>, <<"status_code", "sc">>, <<"page", "pg">>, <<"per_page", "pp">>,
    <<"total", "tot">>, <<"count", "cnt">>, <<"total_pages", "tp">>, <<"total_count", "tc">>,
    <<"limit", "lmt">>, <<"offset", "ofs">>, <<"next", "nxt">>, <<"previous", "prv">>,
    <<"first", "fst">>, <<"last", "lst">>, <<"items", "itm">>, <<"list", "lst">>,
    <<"array", "arr">>, <<"collection", "col">>, <<"children", "ch">>, <<"parent", "par">>,
    <<"siblings", "sib">>, <<"ancestors", "anc">>, <<"index", "idx">>, <<"position", "pos">>,
    <<"order", "ord">>, <<"rank", "rnk">>, <<"priority", "pri">>, <<"sequence", "seq">>,
    <<"level", "lvl">>, <<"url", "url">>, <<"uri", "uri">>, <<"link", "lnk">>,
    <<"href", "hrf">>, <<"image", "img">>, <<"thumbnail", "thb">>, <<"icon", "icn">>,
    <<"logo", "lgo">>, <<"video", "vid">>, <<"audio", "aud">>, <<"file", "fil">>,
    <<"document", "doc">>, <<"table", "tbl">>, <<"column", "col">>, <<"row", "rw">>,
    <<"field", "fld">>, <<"primary_key", "pk">>, <<"foreign_key", "fk">>, <<"unique", "unq">>,
    <<"price", "prc">>, <<"cost", "cst">>, <<"amount", "amt">>, <<"total", "ttl">>,
    <<"subtotal", "sub">>, <<"tax", "tx">>, <<"discount", "dsc">>, <<"currency", "cur">>,
    <<"is_active", "ia">>, <<"is_valid", "iv">>, <<"is_deleted", "idl">>, <<"has_children", "hc">>,
    <<"can_edit", "ce">>, <<"can_delete", "cd">>, <<"version", "ver">>, <<"revision", "rev">>,
    <<"branch", "brn">>, <<"commit", "cmt">>
>>

KEY_ABBREV == DictFromItems(KEY_ABBREV_LITERAL)

(* {v: k for k, v in KEY_ABBREV.items()} *)
Inverted(d) == DictFromItems([i \in 1..Len(d) |-> <<d[i][2], d[i][1]>>])
ABBREV_KEY == Inverted(KEY_ABBREV)

abbreviate(key) == DictGet(KEY_ABBREV, key, key)
expand(code)    == DictGet(ABBREV_KEY, code, code)

(***************************************************************************)
(* VALUE_PATTERNS, as matched by re.match on strings without line breaks   *)
(***************************************************************************)
IsDigit(c) == c \in {"0", "1", "2", "3", "4", "5", "6", "7", "8", "9"}
IsLowerHex(c) == IsDigit(c) \/ c \in {"a", "b", "c", "d", "e", "f"}
DigitsAt(s, from, to) == \A i \in from..to : IsDigit(Char(s, i))

(* ^\d{4}-\d{2}-\d{2}T\d{2}:\d{2}:\d{2}(\.\d+)?(Z|[+-]\d{2}:\d{2})?$ *)
MatchIsoTimestamp(s) ==
    /\ Len(s) >= 19
    /\ DigitsAt(s, 1, 4)   /\ Char(s, 5) = "-"
    /\ DigitsAt(s, 6, 7)   /\ Char(s, 8) = "-"
    /\ DigitsAt(s, 9, 10)  /\ Char(s, 11) = "T"
    /\ DigitsAt(s, 12, 13) /\ Char(s, 14) = ":"
    /\ DigitsAt(s, 15, 16) /\ Char(s, 17) = ":"
    /\ DigitsAt(s, 18, 19)
    /\ LET r == From(s, 19)
           frac == IF Len(r) >= 2 /\ Char(r, 1) = "." /\ IsDigit(Char(r, 2))
                   THEN CHOOSE k \in 2..Len(r) :
                            /\ DigitsAt(r, 2, k)
                            /\ (k = Len(r) \/ ~IsDigit(Char(r, k + 1)))
                   ELSE 0
           z == From(r, frac)
       IN  \/ z = ""
           \/ z = "Z"
           \/ /\ Len(z) = 6
              /\ Char(z, 1) \in {"+", "-"}
              /\ DigitsAt(z, 2, 3) /\ Char(z, 4) = ":" /\ DigitsAt(z, 5, 6)

(* ^[0-9a-f]{8}-[0-9a-f]{4}-[0-9a-f]{4}-[0-9a-f]{4}-[0-9a-f]{12}$ *)
MatchUuid(s) ==
    /\ Len(s) = 36
    /\ \A i \in 1..36 : IF i \in {9, 14, 19, 24} THEN Char(s, i) = "-"
                                                 ELSE IsLowerHex(Char(s, i))

(* ^[a-zA-Z0-9._%+-]+@[a-zA-Z0-9.-]+\.[a-zA-Z]{2,}$ *)
IsAlpha(c) == Ord(c) \in (65..90) \cup (97..122)
MatchEmail(s) ==
    \E at \in 2..Len(s), dot \in 3..(Len(s) - 2) :
        /\ Char(s, at) = "@" /\ Char(s, dot) = "." /\ at + 1 < dot
        /\ \A i \in 1..(at - 1) :
               IsAlpha(Char(s, i)) \/ IsDigit(Char(s, i))
               \/ Char(s, i) \in {".", "_", "%", "+", "-"}
        /\ \A i \in (at + 1)..(dot - 1) :
               IsAlpha(Char(s, i)) \/ IsDigit(Char(s, i)) \/ Char(s, i) \in {".", "-"}
        /\ \A i \in (dot + 1)..Len(s) : IsAlpha(Char(s, i))

(***************************************************************************)
(* Encoding: _convert_to_toon and the three _compress_* methods.  self is  *)
(* the record of the converter's fields.                                   *)
(***************************************************************************)
DictIdOf(string_dict_, s) ==
    string_dict_[CHOOSE i \in 1..Len(string_dict_) :
                     /\ string_dict_[i][2] = s
                     /\ \A j \in 1..(i - 1) : string_dict_[j][2] # s][1]

compress_string_uuid_only_at_aggressive(self, s) ==
    IF self.level >= AGGRESSIVE /\ \E i \in 1..Len(self.string_dict) : self.string_dict[i][2] = s
    THEN Str("@" \o DictIdOf(self.string_dict, s))
    ELSE IF self.level >= AGGRESSIVE /\ s.t = "str" /\ MatchIsoTimestamp(s.s)
    THEN Str("$ts:" \o s.s)
    ELSE IF self.level = AGGRESSIVE /\ s.t = "str" /\ MatchUuid(s.s)
    THEN Str("$uid:" \o s.s)
    ELSE s
compress_string(self, s) ==
    IF self.level >= AGGRESSIVE /\ \E i \in 1..Len(self.string_dict) : self.string_dict[i][2] = s
    THEN Str("@" \o DictIdOf(self.string_dict, s))
    ELSE IF self.level >= AGGRESSIVE /\ s.t = "str" /\ MatchIsoTimestamp(s.s)
    THEN Str("$ts:" \o s.s)
    ELSE IF self.level >= AGGRESSIVE /\ s.t = "str" /\ MatchUuid(s.s)
    THEN Str("$uid:" \o s.s)
    ELSE s

AllDicts(arr) == \A i \in 1..Len(arr) : IsDict(arr[i])
KeySet(obj) == SeqToSet(Keys(obj.o))
PerfectSchema(arr) == Cardinality({Sorted(Keys(arr[i].o)) : i \in 1..Len(arr)}) = 1
CommonKeys(arr) == {k \in KeySet(arr[1]) : \A i \in 1..Len(arr) : k \in KeySet(arr[i])}
(* the items of an element that are not common keys, in the element's order *)
OptionalItems(item, common) == SelectSeq(item.o, LAMBDA kv : kv[1] \notin common)

RECURSIVE convert_to_toon(_, _)

(* {'_sch': [abbreviated keys], '_dat': rows} *)
schema_block(keys, rows) ==
    Obj(<< <<"_sch", Arr(MapSeq(keys, LAMBDA k : Str(abbreviate(k))))>>,
           <<"_dat", Arr(rows)>> >>)
(* [self._convert_to_toon(item.get(k)) for k in keys] *)
row_values(self, item, keys) ==
    MapSeq(keys, LAMBDA k : convert_to_toon(self, DictGet(item.o, k, Null)))
(* the dict of the fields of an item outside the common keys *)
optional_fields(self, opt) ==
    DictFromItems(MapSeq(opt, LAMBDA kv : <<abbreviate(kv[1]), convert_to_toon(self, kv[2])>>))
(* if optional: row.append({'_opt': optional}) *)
with_optional(row, optional) ==
    IF Len(optional) > 0 THEN Arr(Append(row, Obj(<< <<"_opt", Obj(optional)>> >>)))
    ELSE Arr(row)
perfect_schema(self, arr, keys) ==
    schema_block(keys, MapSeq(arr, LAMBDA item : Arr(row_values(self, item, keys))))
partial_schema(self, arr, common) ==
    schema_block(SortedSet(common),
                 MapSeq(arr, LAMBDA item :
                    with_optional(row_values(self, item, SortedSet(common)),
                                  optional_fields(self, OptionalItems(item, common)))))

compress_array(self, arr) ==
    IF Len(arr) = 0 THEN Arr(<<>>)
    ELSE IF AllDicts(arr) /\ self.level >= STANDARD /\ PerfectSchema(arr)
    THEN perfect_schema(self, arr, Sorted(Keys(arr[1].o)))
    ELSE IF /\ AllDicts(arr) /\ self.level >= STANDARD /\ self.level >= AGGRESSIVE
            /\ Cardinality(CommonKeys(arr)) >= 3
    THEN partial_schema(self, arr, CommonKeys(arr))
    ELSE Arr(MapSeq(arr, LAMBDA x : convert_to_toon(self, x)))

compress_object(self, obj) ==
    Obj(DictFromItems(MapSeq(obj, LAMBDA kv :
            << IF self.level >= MINIMAL THEN abbreviate(kv[1]) ELSE kv[1],
               convert_to_toon(self, kv[2]) >>)))

convert_to_toon(self, d) ==
    IF IsNull(d) THEN Str("~")
    ELSE IF IsBool(d) THEN (IF d.b THEN Str("T") ELSE Str("F"))
    ELSE IF IsNum(d) THEN d
    ELSE IF IsStr(d) THEN compress_string(self, d)
    ELSE IF IsList(d) THEN compress_array(self, d.a)
    ELSE IF IsDict(d) THEN compress_object(self, d.o)
    ELSE d

(***************************************************************************)
(* The increments _convert_to_toon(d) makes to self.metrics, in the order  *)
(* of the traversal.                                                       *)
(***************************************************************************)
NoEffect == [abbreviations_used |-> 0, schema_compressions |-> 0,
             value_compressions |-> 0, patterns_detected |-> <<>>]
AddEffect(x, y) ==
    [abbreviations_used  |-> x.abbreviations_used + y.abbreviations_used,
     schema_compressions |-> x.schema_compressions + y.schema_compressions,
     value_compressions  |-> x.value_compressions + y.value_compressions,
     patterns_detected   |-> x.patterns_detected \o y.patterns_detected]

RECURSIVE SumEffects(_)
SumEffects(es) == IF Len(es) = 0 THEN NoEffect ELSE AddEffect(Head(es), SumEffects(Tail(es)))

string_effect(self, s) ==
    IF self.level >= AGGRESSIVE /\ \E i \in 1..Len(self.string_dict) : self.string_dict[i][2] = s
    THEN [NoEffect EXCEPT !.value_compressions = 1]
    ELSE IF self.level >= AGGRESSIVE /\ s.t = "str" /\ MatchIsoTimestamp(s.s)
    THEN [NoEffect EXCEPT !.value_compressions = 1, !.patterns_detected = <<"timestamp">>]
    ELSE IF self.level >= AGGRESSIVE /\ s.t = "str" /\ MatchUuid(s.s)
    THEN [NoEffect EXCEPT !.value_compressions = 1, !.patterns_detected = <<"uuid">>]
    ELSE NoEffect

RECURSIVE convert_effect(_, _)

SchemaEffect == [NoEffect EXCEPT !.schema_compressions = 1]
row_effect(self, item, keys) ==
    SumEffects(MapSeq(keys, LAMBDA k : convert_effect(self, DictGet(item.o, k, Null))))
optional_effect(self, opt) ==
    SumEffects(MapSeq(opt, LAMBDA kv : convert_effect(self, kv[2])))
perfect_effect(self, arr, keys) ==
    AddEffect(SchemaEffect, SumEffects(MapSeq(arr, LAMBDA item : row_effect(self, item, keys))))
partial_effect(self, arr, common) ==
    AddEffect(SumEffects(MapSeq(arr, LAMBDA item :
                  AddEffect(row_effect(self, item, SortedSet(common)),
                            optional_effect(self, OptionalItems(item, common))))),
              SchemaEffect)

array_effect(self, arr) ==
    IF Len(arr) = 0 THEN NoEffect
    ELSE IF AllDicts(arr) /\ self.level >= STANDARD /\ PerfectSchema(arr)
    THEN perfect_effect(self, arr, Sorted(Keys(arr[1].o)))
    ELSE IF /\ AllDicts(arr) /\ self.level >= STANDARD /\ self.level >= AGGRESSIVE
            /\ Cardinality(CommonKeys(arr)) >= 3
    THEN partial_effect(self, arr, CommonKeys(arr))
    ELSE SumEffects(MapSeq(arr, LAMBDA x : convert_effect(self, x)))

object_effect(self, obj) ==
    SumEffects(MapSeq(obj, LAMBDA kv :
        AddEffect(IF self.level >= MINIMAL /\ abbreviate(kv[1]) # kv[1]
                  THEN [NoEffect EXCEPT !.abbreviations_used = 1] ELSE NoEffect,
                  convert_effect(self, kv[2]))))

convert_effect(self, d) ==
    IF IsNull(d) \/ IsBool(d) \/ IsNum(d) THEN NoEffect
    ELSE IF IsStr(d) THEN string_effect(self, d)
    ELSE IF IsList(d) THEN array_effect(self, d.a)
    ELSE IF IsDict(d) THEN object_effect(self, d.o)
    ELSE NoEffect

(***************************************************************************)
(* json.dumps / json.loads, zlib + base64                                  *)
(***************************************************************************)
Dumps(tree, indent) == [t |-> "text", kind |-> "json", tree |-> tree, indent |-> indent]
Garbage == [t |-> "text", kind |-> "garbage"]
NoText  == [t |-> "text", kind |-> "none"]

RECURSIVE Flatten(_)
Flatten(ss) == IF Len(ss) = 0 THEN <<>> ELSE Head(ss) \o Flatten(Tail(ss))

(***************************************************************************)
(* _build_ref_cache and _build_string_dict                                 *)
(***************************************************************************)
RECURSIVE collect_structures(_, _)
collect_structures(d, p) ==
    IF IsDict(d)
    THEN << <<p, d>> >> \o
         Flatten([i \in 1..Len(d.o) |-> collect_structures(d.o[i][2], p \o "." \o d.o[i][1])])
    ELSE IF IsList(d)
    THEN Flatten([i \in 1..Len(d.a) |->
                    collect_structures(d.a[i], p \o "[" \o IntToStr(i - 1) \o "]")])
    ELSE <<>>

(* json.dumps(sorted(d.keys())): one hash per sorted key list *)
struct_hash(d) == Sorted(Keys(d.o))

(* structures: one entry <<hash, [(path, obj), ..]>> per hash, in the order
   of first occurrence *)
group_structures(occ) ==
    MapSeq(Dedup(MapSeq(occ, LAMBDA e : struct_hash(e[2]))),
           LAMBDA h : <<h, SelectSeq(occ, LAMBDA e : struct_hash(e[2]) = h)>>)
structure_counts(d) == group_structures(collect_structures(d, ""))

(* the loop over structures.items() *)
add_refs(self, repeated) ==
    [self EXCEPT !.ref_cache = DictFromItems(self.ref_cache \o
                     [j \in 1..Len(repeated) |->
                        <<"r" \o IntToStr(self.ref_counter + j - 1), repeated[j][2][1][2]>>]),
                 !.ref_counter = self.ref_counter + Len(repeated),
                 !.metrics = [self.metrics EXCEPT
                                !.reference_count = self.metrics.reference_count + Len(repeated)]]
build_ref_cache_from_two(self, d) ==
    add_refs(self, SelectSeq(structure_counts(d), LAMBDA e : Len(e[2]) >= 2))
build_ref_cache(self, d) ==
    add_refs(self, SelectSeq(structure_counts(d), LAMBDA e : Len(e[2]) >= 3))

StrLen(sv) == IF sv.t = "str" THEN Len(sv.s) ELSE 12

RECURSIVE collect_strings(_)
collect_strings(d) ==
    IF IsStr(d) /\ StrLen(d) > 10 THEN <<d>>
    ELSE IF IsDict(d) THEN Flatten([i \in 1..Len(d.o) |-> collect_strings(d.o[i][2])])
    ELSE IF IsList(d) THEN Flatten([i \in 1..Len(d.a) |-> collect_strings(d.a[i])])
    ELSE <<>>

(* Counter: <<string, count>> in order of first occurrence *)
count_strings(found) ==
    MapSeq(Dedup(found),
           LAMBDA sv : <<sv, Cardinality({i \in 1..Len(found) : found[i] = sv})>>)
string_counts(d) == count_strings(collect_strings(d))

(* the loop over string_counts.items() *)
add_strings(self, common) ==
    [self EXCEPT !.string_dict = DictFromItems(self.string_dict \o
                     [j \in 1..Len(common) |->
                        <<"s" \o IntToStr(self.string_counter + j - 1), common[j][1]>>]),
                 !.string_counter = self.string_counter + Len(common)]
build_string_dict(self, d) ==
    add_strings(self, SelectSeq(string_counts(d), LAMBDA e : e[2] >= 2))

(***************************************************************************)
(* AdvancedTOONConverter: __init__ and json_to_toon                        *)
(***************************************************************************)
ZeroMetrics == [abbreviations_used |-> 0, schema_compressions |-> 0,
                value_compressions |-> 0, reference_count |-> 0,
                patterns_detected |-> <<>>]

init(lvl) == [level |-> lvl, ref_cache |-> <<>>, ref_counter |-> 0,
              string_dict |-> <<>>, string_counter |-> 0, metrics |-> ZeroMetrics]

(* "Reset state" *)
reset_state_keeping_counters(self) ==
    [self EXCEPT !.ref_cache = <<>>, !.string_dict = <<>>, !.metrics = ZeroMetrics]
reset_state(self) ==
    [self EXCEPT !.ref_cache = <<>>, !.ref_counter = 0, !.string_dict = <<>>,
                 !.string_counter = 0, !.metrics = ZeroMetrics]

(* the two cache-building statements *)
build_refs_if_enabled(self, d) ==
    IF self.level >= STANDARD THEN build_ref_cache(self, d) ELSE self
build_dict_only_at_aggressive(self, d) ==
    IF self.level = AGGRESSIVE THEN build_string_dict(self, d) ELSE self
build_dict_if_enabled(self, d) ==
    IF self.level >= AGGRESSIVE THEN build_string_dict(self, d) ELSE self
build_caches(self, d) == build_dict_if_enabled(build_refs_if_enabled(self, d), d)

(* toon_data = self._convert_to_toon(data), with its effect on self.metrics *)
add_effect(self, e) ==
    [self EXCEPT !.metrics =
        [abbreviations_used  |-> self.metrics.abbreviations_used + e.abbreviations_used,
         schema_compressions |-> self.metrics.schema_compressions + e.schema_compressions,
         value_compressions  |-> self.metrics.value_compressions + e.value_compressions,
         reference_count     |-> self.metrics.reference_count,
         patterns_detected   |-> self.metrics.patterns_detected \o e.patterns_detected]]
convert_step(self, d) == add_effect(self, convert_effect(self, d))

(* from "Create TOON output" to the return *)
envelope(self, toon_data) ==
    Dumps(Obj(<< <<"_toon", Str("2.0")>>, <<"_lvl", Num(self.level)>>, <<"d", toon_data>> >>
              \o (IF Len(self.ref_cache) > 0
                  THEN << <<"_refs", Obj(self.ref_cache)>> >> ELSE <<>>)
              \o (IF Len(self.string_dict) > 0
                  THEN << <<"_dict", Obj(self.string_dict)>> >> ELSE <<>>)), 0)
deflate_if_extreme(self, json_str) ==
    IF self.level = EXTREME
    THEN Dumps(Obj(<< <<"_toon", Str("2.0")>>, <<"_lvl", Num(4)>>,
                      <<"_zlib", Bool(TRUE)>>, <<"d", ZStr(json_str)>> >>), 0)
    ELSE json_str
emit(self, toon_data) == deflate_if_extreme(self, envelope(self, toon_data))

IsText(x) == x.t = "text"

(* json_to_toon(data): the converter after the call and the returned text, or
   the exception raised.  data is a dict or a list, or a str holding a JSON
   text. *)
convert_and_emit(self, parsed) ==
    [self |-> convert_step(self, parsed), result |-> emit(self, convert_to_toon(self, parsed))]
encode(self, parsed) == convert_and_emit(build_caches(reset_state(self), parsed), parsed)
json_to_toon(self, d) ==
    IF IsText(d) /\ d.kind # "json"
    THEN [self |-> self, result |-> Raise("JSONDecodeError")]
    ELSE encode(self, IF IsText(d) THEN d.tree ELSE d)

(***************************************************************************)
(* Decoding.  An exception raised by the code is the value Raise(kind);    *)
(* an operation whose operand raised raises the same exception.            *)
(* Python semantics used by the decoder on values of any type:             *)
(***************************************************************************)
(* x.get(key, default) *)
PyGet(x, key, default) ==
    IF IsDict(x) THEN DictGet(x.o, key, default) ELSE Raise("AttributeError")

(* iterating x: the elements of a list, the characters of a str, the keys
   of a dict *)
PyIterable(x) == IsList(x) \/ x.t = "str" \/ IsDict(x)
PyIter(x) ==
    IF IsList(x) THEN x.a
    ELSE IF x.t = "str" THEN [i \in 1..Len(x.s) |-> Str(Char(x.s, i))]
    ELSE [i \in 1..Len(x.o) |-> Str(x.o[i][1])]

(* bool(x) *)
Truthy(x) ==
    IF IsNull(x) THEN FALSE
    ELSE IF IsBool(x) THEN x.b
    ELSE IF IsNum(x) THEN x.n # 0
    ELSE IF x.t = "str" THEN Len(x.s) > 0
    ELSE IF x.t = "zstr" THEN TRUE
    ELSE IF IsList(x) THEN Len(x.a) > 0
    ELSE Len(x.o) > 0

(* '_toon' in x, for x a str *)
HasSubstring(str, sub) ==
    \E i \in 1..Len(str) : i + Len(sub) - 1 <= Len(str) /\ SubSeq(str, i, i + Len(sub) - 1) = sub

RECURSIVE convert_from_toon(_, _, _)

decompress_object(obj, refs, sd) ==
    Propagate(MapSeq(obj, LAMBDA kv : convert_from_toon(kv[2], refs, sd)),
              LAMBDA vals : Obj(DictFromItems([i \in 1..Len(obj) |->
                                                 <<expand(obj[i][1]), vals[i]>>])))

(* one row of a schema block; schema entries are strings *)
HasOpt(items) == IsDict(items[Len(items)]) /\ DictHas(items[Len(items)].o, "_opt")
Zip(xs, ys) == [i \in 1..(IF Len(xs) < Len(ys) THEN Len(xs) ELSE Len(ys)) |-> <<xs[i], ys[i]>>]
(* result[key] = ... for zip(expanded_keys, row_data), then the optional
   fields *)
fill_row(expanded_keys, row_data, optional, refs, sd) ==
    Propagate(
        MapSeq(Zip(expanded_keys, row_data), LAMBDA kv : convert_from_toon(kv[2], refs, sd)),
        LAMBDA common :
            IF ~Truthy(optional) THEN Obj(DictFromItems(Zip(expanded_keys, common)))
            ELSE IF ~IsDict(optional) THEN Raise("AttributeError")
            ELSE Propagate(
                    MapSeq(optional.o, LAMBDA kv : convert_from_toon(kv[2], refs, sd)),
                    LAMBDA opt : Obj(DictFromItems(
                        Zip(expanded_keys, common) \o
                        [j \in 1..Len(optional.o) |-> <<expand(optional.o[j][1]), opt[j]>>]))))
split_row(expanded_keys, items, refs, sd) ==
    fill_row(expanded_keys,
             IF HasOpt(items) THEN SubSeq(items, 1, Len(items) - 1) ELSE items,
             IF HasOpt(items) THEN DictGet(items[Len(items)].o, "_opt", Null) ELSE Null,
             refs, sd)
decompress_row(expanded_keys, row, refs, sd) ==
    IF IsNull(row) \/ IsBool(row) \/ IsNum(row) THEN Raise("TypeError")
    ELSE IF IsDict(row) THEN Raise("KeyError")
    ELSE IF Len(PyIter(row)) = 0 THEN Raise("IndexError")
    ELSE split_row(expanded_keys, PyIter(row), refs, sd)

expand_rows(schema, values, refs, sd) ==
    IF ~PyIterable(schema) THEN Raise("TypeError")
    ELSE IF \E i \in 1..Len(PyIter(schema)) : IsList(PyIter(schema)[i]) \/ IsDict(PyIter(schema)[i])
    THEN Raise("TypeError")
    ELSE IF ~PyIterable(values) THEN Raise("TypeError")
    ELSE Propagate(MapSeq(PyIter(values), LAMBDA row :
                      decompress_row(MapSeq(PyIter(schema), LAMBDA k : expand(k.s)),
                                     row, refs, sd)),
                   LAMBDA rows : Arr(rows))
decompress_schema_array(d, refs, sd) ==
    expand_rows(DictGet(d.o, "_sch", Null), DictGet(d.o, "_dat", Null), refs, sd)

convert_from_toon(d, refs, sd) ==
    IF d = Str("~") THEN Null
    ELSE IF d = Str("T") THEN Bool(TRUE)
    ELSE IF d = Str("F") THEN Bool(FALSE)
    ELSE IF IsNum(d) \/ IsBool(d) THEN d
    ELSE IF d.t = "str"
    THEN IF StartsWith(d.s, "@s") THEN PyGet(sd, From(d.s, 1), d)
         ELSE IF StartsWith(d.s, "$ts:") THEN Str(From(d.s, 4))
         ELSE IF StartsWith(d.s, "$uid:") THEN Str(From(d.s, 5))
         ELSE IF StartsWith(d.s, "@r") THEN PyGet(refs, From(d.s, 1), d)
         ELSE d
    ELSE IF IsList(d)
    THEN Propagate(MapSeq(d.a, LAMBDA x : convert_from_toon(x, refs, sd)),
                   LAMBDA items : Arr(items))
    ELSE IF IsDict(d)
    THEN IF DictHas(d.o, "_sch") /\ DictHas(d.o, "_dat")
         THEN decompress_schema_array(d, refs, sd)
         ELSE decompress_object(d.o, refs, sd)
    ELSE d

(* base64.b64decode followed by zlib.decompress of a str that is not the
   encoding of a deflated text (and has no '=' in it): characters outside the
   base64 alphabet are discarded, a length that is not a multiple of 4 is a
   binascii.Error, and the bytes obtained are not a zlib stream *)
IsBase64Char(c) ==
    \/ IsDigit(c) \/ c \in {"+", "/"}
    \/ (65 <= Ord(c) /\ Ord(c) <= 90) \/ (97 <= Ord(c) /\ Ord(c) <= 122)
inflate_error(str) ==
    IF Cardinality({i \in 1..Len(str) : IsBase64Char(Char(str, i))}) % 4 # 0
    THEN Raise("binascii.Error") ELSE Raise("zlib.error")

(* from "Load references and string dictionary" to the return *)
decode_envelope(toon_data) ==
    IF ~IsDict(toon_data) THEN Raise("AttributeError")
    ELSE IF ~DictHas(toon_data.o, "d") THEN Raise("KeyError")
    ELSE PropagateOne(convert_from_toon(DictGet(toon_data.o, "d", Null),
                                        PyGet(toon_data, "_refs", Obj(<<>>)),
                                        PyGet(toon_data, "_dict", Obj(<<>>))),
                      LAMBDA json_data : Dumps(json_data, 2))

(* '_toon' not in toon_data, for a dict, a list or a str *)
version_check_no_tag(toon_data) == FALSE
missing_version(toon_data) ==
    \/ IsDict(toon_data) /\ ~DictHas(toon_data.o, "_toon")
    \/ IsList(toon_data) /\ Str("_toon") \notin SeqToSet(toon_data.a)
    \/ toon_data.t = "str" /\ ~HasSubstring(toon_data.s, "_toon")
    \/ toon_data.t = "zstr"

toon_to_json(toon_str) ==
    IF toon_str.kind # "json" THEN Raise("JSONDecodeError")
    ELSE LET toon_data == toon_str.tree
         IN  IF IsNull(toon_data) \/ IsBool(toon_data) \/ IsNum(toon_data) THEN Raise("TypeError")
             ELSE IF missing_version(toon_data) THEN Raise("ValueError")
             ELSE IF ~IsDict(toon_data) THEN Raise("AttributeError")
             ELSE IF Truthy(DictGet(toon_data.o, "_zlib", Null))
             THEN IF ~DictHas(toon_data.o, "d") THEN Raise("KeyError")
                  ELSE LET encoded == DictGet(toon_data.o, "d", Null)
                       IN  IF ~IsStr(encoded) THEN Raise("AttributeError")
                           ELSE IF encoded.t = "str" THEN inflate_error(encoded.s)
                           ELSE IF encoded.z.kind # "json" THEN Raise("JSONDecodeError")
                           ELSE decode_envelope(encoded.z.tree)
             ELSE decode_envelope(toon_data)

(* the classes of the exceptions above that are ValueError or a subclass *)
IsValueError(r) == IsRaise(r) /\ r.e \in {"ValueError", "JSONDecodeError", "binascii.Error"}

(***************************************************************************)
(* Structural equality of documents: key order irrelevant for objects,     *)
(* exact for arrays (Python's == on the parsed documents)                  *)
(***************************************************************************)
RECURSIVE DocEq(_, _)
DocEq(x, y) ==
    IF x.t # y.t THEN FALSE
    ELSE IF IsDict(x)
    THEN /\ SeqToSet(Keys(x.o)) = SeqToSet(Keys(y.o))
         /\ \A i \in 1..Len(x.o) : DocEq(x.o[i][2], DictGet(y.o, x.o[i][1], Null))
    ELSE IF IsList(x)
    THEN /\ Len(x.a) = Len(y.a)
         /\ \A i \in 1..Len(x.a) : DocEq(x.a[i], y.a[i])
    ELSE x = y

(***************************************************************************)
(* The documents and the envelopes the callers pass                        *)
(***************************************************************************)
TS   == "2025-01-01T00:00:00Z"
UUID == "550e8400-e29b-41d4-a716-446655440000"
LONG == "hello world!"
EMAIL == "test@example.com"

Numbers  == <<Num(1), Num(2), Num(3), Num(4)>>
Literals == <<Null, Bool(TRUE), Bool(FALSE), Str("ab")>>
Tokens   == <<Str("~"), Str("T"), Str("$ts:x"), Str("@s0")>>
Patterns == <<Str(TS), Str(LONG), Str(LONG), Str(UUID)>>

KeyLists == { <<>>, <<"id">>, <<"title", "total">>, <<"b", "a">>,
              <<"id", "name", "type">>, <<"type", "id", "name", "x">> }
ValueLists == { Numbers, Literals, Tokens, Patterns }
(* the elements and values of the generated arrays *)
ElementKeyLists == KeyLists \ { <<"id">>, <<"title", "total">> }
ElementValueLists == ValueLists \ { Tokens }

MkObj(ks, vs) == Obj([i \in 1..Len(ks) |-> <<ks[i], vs[i]>>])
Objects == {MkObj(ks, vs) : ks \in KeyLists, vs \in ValueLists}
ArraysOf(vs) ==
    {Arr(a) : a \in UNION {[1..n -> {MkObj(ks, vs) : ks \in ElementKeyLists} \cup {Null}] :
                             n \in 0..MaxArrLen}}
Nested == {Obj(<< <<"data", Arr(<<x, x>>)>>, <<"meta", x>> >>) : x \in Objects}
(* documents of the test suite's edge cases: keys that are codes of the
   table or hold special characters, value patterns, empty structures
   inside structures, objects repeated inside repeated objects *)
EdgeDocs == { MkObj(<<"i", "key-with-dash">>, Numbers),
              MkObj(<<"timestamp", "uuid", "email">>, <<Str(TS), Str(UUID), Str(EMAIL)>>),
              Arr(<<MkObj(<<"id", "name", "type", "data">>, Numbers),
                    MkObj(<<"id", "name", "type">>, Numbers)>>),
              Arr(<<Arr(<<>>), Obj(<<>>), Null>>),
              Obj(<< <<"empty_dict", Obj(<<>>)>>, <<"empty_list", Arr(<<>>)>> >>),
              Arr(<<MkObj(<<"id", "user">>, <<Num(1), MkObj(<<"name">>, Numbers)>>),
                    MkObj(<<"user", "id">>, <<MkObj(<<"name">>, Numbers), Num(2)>>),
                    MkObj(<<"id", "user">>, <<Num(3), MkObj(<<"name">>, Numbers)>>)>>) }
Docs == Objects \cup UNION {ArraysOf(vs) : vs \in ElementValueLists} \cup Nested \cup EdgeDocs

LevelArgs == 0..MaxLevelArg

(* texts given to toon_to_json that no json_to_toon call returned *)
InnerTexts == { Garbage,
                Dumps(Num(5), 0),
                Dumps(Obj(<< <<"d", Obj(<< <<"i", Num(1)>> >>)>> >>), 0),
                Dumps(Obj(<< <<"_toon", Str("2.0")>> >>), 0),
                Dumps(Obj(<< <<"_toon", Str("2.0")>>, <<"_lvl", Num(4)>>,
                             <<"d", Obj(<< <<"i", Num(1)>> >>)>> >>), 0) }
Payloads == { Num(1), Str("~"), Str("abcd"), Obj(<< <<"i", Num(1)>> >>) }
              \cup {ZStr(x) : x \in InnerTexts}
ObjectEnvelopes ==
    { Obj(tag \o lvl \o z \o payload) :
        tag \in { <<>>, << <<"_toon", Str("2.0")>> >> },
        lvl \in { <<>> } \cup { << <<"_lvl", Num(v)>> >> : v \in LevelArgs },
        z \in { <<>>, << <<"_zlib", Bool(TRUE)>> >> },
        payload \in { <<>> } \cup { << <<"d", x>> >> : x \in Payloads } }
OtherEnvelopes == { Arr(<<>>), Arr(<<Str("_toon")>>), Num(5), Null, Str("abc"), Str("_toon") }
Envelopes == {Dumps(x, 0) : x \in ObjectEnvelopes \cup OtherEnvelopes} \cup {Garbage}

(***************************************************************************)
(* The converter objects                                                   *)
(***************************************************************************)
Converters == {"c1", "c2"}
Threads == {"t1", "t2"}

Self(c) == [level |-> level[c], ref_cache |-> ref_cache[c], ref_counter |-> ref_counter[c],
            string_dict |-> string_dict[c], string_counter |-> string_counter[c],
            metrics |-> metrics[c]]

(* calculate_metrics(original_json, toon_str): the counts of the report; the
   sizes and ratios computed from the two strings are not kept *)
calculate_metrics(self) ==
    [compression_level |-> self.level,
     abbreviations_used |-> self.metrics.abbreviations_used,
     schema_compressions |-> self.metrics.schema_compressions,
     value_compressions |-> self.metrics.value_compressions,
     reference_count |-> self.metrics.reference_count]

Store(c, self) ==
    /\ level' = [level EXCEPT ![c] = self.level]
    /\ ref_cache' = [ref_cache EXCEPT ![c] = self.ref_cache]
    /\ ref_counter' = [ref_counter EXCEPT ![c] = self.ref_counter]
    /\ string_dict' = [string_dict EXCEPT ![c] = self.string_dict]
    /\ string_counter' = [string_counter EXCEPT ![c] = self.string_counter]
    /\ metrics' = [metrics EXCEPT ![c] = self.metrics]

(* AdvancedTOONConverter() : level defaults to STANDARD *)
InitConverters ==
    /\ level = [c \in Converters |-> STANDARD]
    /\ ref_cache = [c \in Converters |-> <<>>]
    /\ ref_counter = [c \in Converters |-> 0]
    /\ string_dict = [c \in Converters |-> <<>>]
    /\ string_counter = [c \in Converters |-> 0]
    /\ metrics = [c \in Converters |-> ZeroMetrics]

InitThreads ==
    /\ pc = [t \in Threads |-> "idle"]
    /\ t_conv = [t \in Threads |-> "c1"]
    /\ t_data = [t \in Threads |-> Null]
    /\ t_toon_data = [t \in Threads |-> Null]
    /\ t_ret = [t \in Threads |-> NoText]

InitCaller ==
    /\ input \in Docs \cup Envelopes
    /\ op = "init" /\ exc = "none" /\ data = Null
    /\ toon = NoText /\ prev_toon = NoText /\ fed = NoText /\ json_out = NoText

(* AdvancedPatternAnalyzer() *)
InitAnalyzer ==
    /\ detected_patterns = <<>>
    /\ key_frequency = <<>>
    /\ value_type_counts = <<>>
    /\ nesting_depths = <<>>
    /\ array_sizes = <<>>
    /\ returned = Null

(* JSON2TOONServer(): the statistics; start_time is not kept *)
NoStats == [total_conversions |-> 0, total_bytes_saved |-> 0, total_original_bytes |-> 0,
            compression_by_level |-> [l \in 1..4 |-> 0], patterns_detected |-> <<>>]
InitServer ==
    /\ stats = NoStats
    /\ tool = "" /\ arguments = Obj(<<>>) /\ response = <<>>

Init == InitConverters /\ InitThreads /\ InitCaller /\ InitAnalyzer /\ InitServer

(***************************************************************************)
(* The sequential caller                                                   *)
(***************************************************************************)
(* AdvancedTOONConverter(level=CompressionLevel(v)) *)
Construct(c, v) ==
    /\ op' = "construct"
    /\ IF v \in CompressionLevel
       THEN Store(c, init(v)) /\ exc' = "none"
       ELSE UNCHANGED conv_vars /\ exc' = "ValueError"
    /\ data' = Null /\ toon' = NoText /\ prev_toon' = NoText
    /\ fed' = NoText /\ json_out' = NoText
    /\ UNCHANGED <<input, thr_vars, an_vars, srv_vars>>

(* toon = converter.json_to_toon(input) *)
JsonToToon(c) ==
    /\ ~IsText(input)
    /\ \E r \in {json_to_toon(Self(c), input)} :
           /\ op' = "json_to_toon"
           /\ Store(c, r.self)
           /\ exc' = "none"
           /\ data' = input
           /\ toon' = r.result
           /\ prev_toon' = NoText /\ fed' = NoText /\ json_out' = NoText
    /\ UNCHANGED <<input, thr_vars, an_vars, srv_vars>>

(* json_str = converter.toon_to_json(toon) *)
ToonToJson(c) ==
    /\ toon.kind = "json"
    /\ \E r \in {toon_to_json(toon)} :
           /\ op' = "toon_to_json"
           /\ fed' = toon
           /\ exc' = IF IsRaise(r) THEN r.e ELSE "none"
           /\ json_out' = IF IsRaise(r) THEN NoText ELSE r
    /\ UNCHANGED <<conv_vars, input, data, toon, prev_toon, thr_vars, an_vars, srv_vars>>

(* toon = converter.json_to_toon(json_str), the decoded text encoded again *)
ReEncode(c) ==
    /\ op = "toon_to_json" /\ json_out.kind = "json"
    /\ \E r \in {json_to_toon(Self(c), json_out)} :
           /\ op' = "re_encode"
           /\ Store(c, r.self)
           /\ exc' = "none"
           /\ data' = json_out.tree
           /\ prev_toon' = toon
           /\ toon' = r.result
           /\ fed' = NoText /\ json_out' = NoText
    /\ UNCHANGED <<input, thr_vars, an_vars, srv_vars>>

(* convert_toon_to_json(input): a new converter decodes a text *)
ConvertToonToJson(c) ==
    /\ IsText(input)
    /\ \E r \in {toon_to_json(input)} :
           /\ op' = "convert_toon_to_json"
           /\ Store(c, init(STANDARD))
           /\ fed' = input
           /\ exc' = IF IsRaise(r) THEN r.e ELSE "none"
           /\ json_out' = IF IsRaise(r) THEN NoText ELSE r
           /\ data' = Null /\ toon' = NoText /\ prev_toon' = NoText
    /\ UNCHANGED <<input, thr_vars, an_vars, srv_vars>>

Next ==
    \/ \E v \in LevelArgs : Construct("c1", v)
    \/ JsonToToon("c1")
    \/ ToonToJson("c1")
    \/ ReEncode("c1")
    \/ ConvertToonToJson("c1")

Spec == Init /\ [][Next]_vars

(***************************************************************************)
(* Concurrent callers: each thread makes one json_to_toon call on a        *)
(* converter; a thread switch can fall between any two statements of the   *)
(* method, which reads and writes the converter's fields.                  *)
(***************************************************************************)
ConcDocs == { Obj(<< <<"id", Num(1)>> >>),
              Obj(<< <<"b", Str(LONG)>>, <<"a", Str(LONG)>> >>),
              Arr(<<MkObj(<<"id", "name", "type">>, Numbers),
                    MkObj(<<"id", "name", "type">>, Numbers),
                    MkObj(<<"id", "name", "type">>, Numbers)>>) }

InitConc ==
    /\ level \in [Converters -> CompressionLevel]
    /\ ref_cache = [c \in Converters |-> <<>>]
    /\ ref_counter = [c \in Converters |-> 0]
    /\ string_dict = [c \in Converters |-> <<>>]
    /\ string_counter = [c \in Converters |-> 0]
    /\ metrics = [c \in Converters |-> ZeroMetrics]
    /\ InitThreads
    /\ InitAnalyzer
    /\ InitServer
    /\ input = Null
    /\ op = "init" /\ exc = "none" /\ data = Null
    /\ toon = NoText /\ prev_toon = NoText /\ fed = NoText /\ json_out = NoText

Goto(t, label) == pc' = [pc EXCEPT ![t] = label]

(* thread t calls c.json_to_toon(d) *)
Call(t, c, d) ==
    /\ pc[t] = "idle"
    /\ Goto(t, "reset")
    /\ t_conv' = [t_conv EXCEPT ![t] = c]
    /\ t_data' = [t_data EXCEPT ![t] = d]
    /\ UNCHANGED <<conv_vars, seq_vars, t_toon_data, t_ret, an_vars, srv_vars>>

(* "Reset state" *)
StepReset(t) ==
    /\ pc[t] = "reset"
    /\ Store(t_conv[t], reset_state(Self(t_conv[t])))
    /\ Goto(t, "refs")
    /\ UNCHANGED <<seq_vars, t_conv, t_data, t_toon_data, t_ret, an_vars, srv_vars>>

(* "Build reference cache for repeated structures" *)
StepRefs(t) ==
    /\ pc[t] = "refs"
    /\ \E s \in {IF level[t_conv[t]] >= STANDARD
                 THEN build_ref_cache(Self(t_conv[t]), t_data[t])
                 ELSE Self(t_conv[t])} : Store(t_conv[t], s)
    /\ Goto(t, "dict")
    /\ UNCHANGED <<seq_vars, t_conv, t_data, t_toon_data, t_ret, an_vars, srv_vars>>

(* "Build string dictionary for common strings" *)
StepDict(t) ==
    /\ pc[t] = "dict"
    /\ \E s \in {IF level[t_conv[t]] >= AGGRESSIVE
                 THEN build_string_dict(Self(t_conv[t]), t_data[t])
                 ELSE Self(t_conv[t])} : Store(t_conv[t], s)
    /\ Goto(t, "convert")
    /\ UNCHANGED <<seq_vars, t_conv, t_data, t_toon_data, t_ret, an_vars, srv_vars>>

(* "Convert to TOON" *)
StepConvert(t) ==
    /\ pc[t] = "convert"
    /\ \E s \in {Self(t_conv[t])} :
           /\ t_toon_data' = [t_toon_data EXCEPT ![t] = convert_to_toon(s, t_data[t])]
           /\ Store(t_conv[t], convert_step(s, t_data[t]))
    /\ Goto(t, "emit")
    /\ UNCHANGED <<seq_vars, t_conv, t_data, t_ret, an_vars, srv_vars>>

(* "Create TOON output" to the return *)
StepEmit(t) ==
    /\ pc[t] = "emit"
    /\ t_ret' = [t_ret EXCEPT ![t] = emit(Self(t_conv[t]), t_toon_data[t])]
    /\ Goto(t, "done")
    /\ UNCHANGED <<conv_vars, seq_vars, t_conv, t_data, t_toon_data, an_vars, srv_vars>>

NextConc ==
    \E t \in Threads :
        \/ \E c \in Converters, d \in ConcDocs : Call(t, c, d)
        \/ StepReset(t)
        \/ StepRefs(t)
        \/ StepDict(t)
        \/ StepConvert(t)
        \/ StepEmit(t)

SpecConc == InitConc /\ [][NextConc]_vars

(***************************************************************************)
(* AdvancedPatternAnalyzer.  A float that is a quotient of two integers is *)
(* the fraction [n, d] with d > 0, compared by cross multiplication.       *)
(***************************************************************************)
RECURSIVE GCD(_, _)
GCD(a, b) == IF b = 0 THEN a ELSE GCD(b, a % b)
(* the fraction n/d in lowest terms *)
R(n, d) == [n |-> n \div GCD(n, d), d |-> d \div GCD(n, d)]
RLess(x, y) == x.n * y.d < y.n * x.d
REq(x, y) == x.n * y.d = y.n * x.d
RAdd(x, y) == R(x.n * y.d + y.n * x.d, x.d * y.d)
RMul(x, y) == R(x.n * y.n, x.d * y.d)
RMin(x, y) == IF RLess(y, x) THEN y ELSE x

(* format(x, ".0%"): the nearest whole percent, a tie going to the even one *)
Percent(x) ==
    LET q == (x.n * 100) \div x.d
        r2 == 2 * ((x.n * 100) % x.d)
    IN  IntToStr(IF r2 > x.d \/ (r2 = x.d /\ q % 2 = 1) THEN q + 1 ELSE q) \o "%"

API_PATTERNS == <<
    <<"rest_response", <<"status", "data", "message", "meta">> >>,
    <<"graphql_response", <<"data", "errors", "extensions">> >>,
    <<"json_rpc", <<"jsonrpc", "result", "error", "id">> >>,
    <<"oauth", <<"access_token", "token_type", "expires_in", "refresh_token">> >>,
    <<"error_response", <<"error", "error_code", "error_message", "details">> >> >>

DATABASE_PATTERNS == <<
    <<"crud_record", <<"id", "created_at", "updated_at", "deleted_at">> >>,
    <<"audit_log", <<"user_id", "action", "timestamp", "changes">> >>,
    <<"versioned", <<"id", "version", "created_at", "updated_at">> >>,
    <<"soft_delete", <<"deleted_at", "deleted_by", "is_deleted">> >> >>

USER_PATTERNS == <<
    <<"basic_user", <<"username", "email", "password">> >>,
    <<"profile", <<"first_name", "last_name", "avatar", "bio">> >>,
    <<"authentication", <<"token", "session_id", "expires_at">> >>,
    <<"preferences", <<"theme", "language", "timezone", "notifications">> >> >>

NESTED_PATTERNS == <<
    <<"address", <<"street", "city", "state", "postal_code", "country">> >>,
    <<"coordinates", <<"latitude", "longitude", "altitude">> >>,
    <<"dimensions", <<"width", "height", "depth", "unit">> >>,
    <<"date_range", <<"start_date", "end_date">> >>,
    <<"time_range", <<"start_time", "end_time">> >>,
    <<"contact", <<"email", "phone", "mobile", "fax">> >>,
    <<"social_links", <<"facebook", "twitter", "linkedin", "instagram">> >>,
    <<"metadata", <<"created_by", "updated_by", "tags", "category">> >> >>

PAGINATION_PATTERNS ==
    <<"page", "per_page", "total_pages", "total_count",
      "limit", "offset", "next", "previous", "has_more">>

(* the members of PatternType, by value *)
PatternType ==
    {"api_response", "database_record", "user_data", "pagination", "nested_address",
     "nested_coordinates", "nested_dimensions", "nested_metadata", "homogeneous_array",
     "consistent_schema_array", "repeated_structure", "time_series", "graph_node",
     "tree_structure", "enum_values", "sparse_array", "deep_nesting"}

(* Pattern(...): keys is <<>> where the code leaves it None; the sample and
   the recommendation text are not kept *)
Pattern(pattern_type, confidence, location, keys, count, compression_potential) ==
    [pattern_type |-> pattern_type, confidence |-> confidence, location |-> location,
     keys |-> keys, count |-> count, compression_potential |-> compression_potential]

(* a Counter: <<element, count>> in order of first occurrence *)
CounterOf(s) ==
    LET first == SelectSeq([i \in 1..Len(s) |-> i], LAMBDA i : \A j \in 1..(i - 1) : s[j] # s[i])
    IN  [q \in 1..Len(first) |->
            <<s[first[q]], Cardinality({i \in 1..Len(s) : s[i] = s[first[q]]})>>]

(* type(value).__name__ *)
TypeName(v) ==
    IF IsNull(v) THEN "NoneType" ELSE IF IsBool(v) THEN "bool" ELSE IF IsNum(v) THEN "int"
    ELSE IF IsStr(v) THEN "str" ELSE IF IsList(v) THEN "list" ELSE "dict"

(* _deep_traverse: what it appends to nesting_depths, and the keys, the type
   names and the array sizes it counts, in the order of the traversal *)
RECURSIVE traverse_depths(_, _)
traverse_depths(d, depth) ==
    <<depth>> \o
    (IF IsDict(d) THEN Flatten([i \in 1..Len(d.o) |-> traverse_depths(d.o[i][2], depth + 1)])
     ELSE IF IsList(d) THEN Flatten([i \in 1..Len(d.a) |-> traverse_depths(d.a[i], depth + 1)])
     ELSE <<>>)

RECURSIVE traverse_keys(_)
traverse_keys(d) ==
    IF IsDict(d) THEN Flatten([i \in 1..Len(d.o) |-> <<d.o[i][1]>> \o traverse_keys(d.o[i][2])])
    ELSE IF IsList(d) THEN Flatten([i \in 1..Len(d.a) |-> traverse_keys(d.a[i])])
    ELSE <<>>

RECURSIVE traverse_types(_)
traverse_types(d) ==
    IF IsDict(d)
    THEN Flatten([i \in 1..Len(d.o) |-> <<TypeName(d.o[i][2])>> \o traverse_types(d.o[i][2])])
    ELSE IF IsList(d) THEN Flatten([i \in 1..Len(d.a) |-> traverse_types(d.a[i])])
    ELSE <<>>

RECURSIVE traverse_sizes(_)
traverse_sizes(d) ==
    IF IsDict(d) THEN Flatten([i \in 1..Len(d.o) |-> traverse_sizes(d.o[i][2])])
    ELSE IF IsList(d) THEN <<Len(d.a)>> \o Flatten([i \in 1..Len(d.a) |-> traverse_sizes(d.a[i])])
    ELSE <<>>

(* the analyzer after analyze's resets and the _deep_traverse call *)
deep_traverse(d) ==
    [detected_patterns |-> <<>>,
     key_frequency |-> CounterOf(traverse_keys(d)),
     value_type_counts |-> CounterOf(traverse_types(d)),
     nesting_depths |-> traverse_depths(d, 0),
     array_sizes |-> traverse_sizes(d)]

(* [k for k in pattern_keys if k in obj] *)
KeyMatches(pattern_keys, obj) == SelectSeq(pattern_keys, LAMBDA k : DictHas(obj.o, k))
(* the entries of a pattern table whose confidence for obj is above threshold *)
Confidence(pattern_keys, obj) == R(Len(KeyMatches(pattern_keys, obj)), Len(pattern_keys))
Matching(table, obj, threshold) ==
    SelectSeq(table, LAMBDA e : RLess(threshold, Confidence(e[2], obj)))

detect_api_patterns(d, path) ==
    IF ~IsDict(d) THEN <<>>
    ELSE LET hit == Matching(API_PATTERNS, d, R(4, 10))
         IN  [q \in 1..Len(hit) |->
                Pattern("api_response", Confidence(hit[q][2], d), path, KeyMatches(hit[q][2], d), 0,
                        RAdd(R(5, 10), RMul(Confidence(hit[q][2], d), R(3, 10))))]

detect_database_patterns(d, path) ==
    IF IsDict(d)
    THEN LET hit == Matching(DATABASE_PATTERNS, d, R(4, 10))
         IN  [q \in 1..Len(hit) |->
                Pattern("database_record", Confidence(hit[q][2], d), path, KeyMatches(hit[q][2], d), 0,
                        RAdd(R(6, 10), RMul(Confidence(hit[q][2], d), R(2, 10))))]
    ELSE IF IsList(d) /\ Len(d.a) > 0 /\ IsDict(d.a[1])
    THEN LET hit == Matching(DATABASE_PATTERNS, d.a[1], R(4, 10))
         IN  [q \in 1..Len(hit) |->
                Pattern("database_record", Confidence(hit[q][2], d.a[1]), path,
                        KeyMatches(hit[q][2], d.a[1]), Len(d.a),
                        RAdd(R(7, 10), RMul(Confidence(hit[q][2], d.a[1]), R(2, 10))))]
    ELSE <<>>

detect_user_patterns(d, path) ==
    IF ~IsDict(d) THEN <<>>
    ELSE LET hit == Matching(USER_PATTERNS, d, R(35, 100))
         IN  [q \in 1..Len(hit) |->
                Pattern("user_data", Confidence(hit[q][2], d), path, KeyMatches(hit[q][2], d), 0,
                        R(5, 10))]

(* getattr(PatternType, f"NESTED_{pattern_name.upper()}", PatternType.NESTED_METADATA) *)
nested_pattern_type(pattern_name) ==
    IF ("nested_" \o pattern_name) \in PatternType
    THEN "nested_" \o pattern_name ELSE "nested_metadata"

detect_nested_patterns(d, path) ==
    IF ~IsDict(d) THEN <<>>
    ELSE Flatten([p \in 1..Len(NESTED_PATTERNS) |->
            LET items == SelectSeq(d.o, LAMBDA kv :
                            IsDict(kv[2]) /\ RLess(R(6, 10), Confidence(NESTED_PATTERNS[p][2], kv[2])))
            IN  [q \in 1..Len(items) |->
                    Pattern(nested_pattern_type(NESTED_PATTERNS[p][1]),
                            Confidence(NESTED_PATTERNS[p][2], items[q][2]),
                            path \o "." \o items[q][1],
                            KeyMatches(NESTED_PATTERNS[p][2], items[q][2]), 0, R(4, 10))]])

detect_pagination_patterns(d, path) ==
    IF IsDict(d) /\ RLess(R(3, 10), Confidence(PAGINATION_PATTERNS, d))
    THEN <<Pattern("pagination", Confidence(PAGINATION_PATTERNS, d), path,
                   KeyMatches(PAGINATION_PATTERNS, d), 0, R(3, 10))>>
    ELSE <<>>

(* isinstance(item, type_): bool is a subclass of int *)
IsInstance(item, type_) ==
    TypeName(item) = type_ \/ (type_ = "int" /\ TypeName(item) = "bool")

is_homogeneous_array(arr) ==
    Len(arr) = 0 \/ \A i \in 1..Len(arr) : IsInstance(arr[i], TypeName(arr[1]))

calculate_schema_consistency(arr) ==
    LET key_sets == [i \in 1..Len(arr) |-> SeqToSet(Keys(arr[i].o))]
        all_keys == UNION {key_sets[i] : i \in 1..Len(arr)}
        common_keys == {k \in all_keys : \A i \in 1..Len(arr) : k \in key_sets[i]}
    IN  IF Len(arr) = 0 THEN R(0, 1)
        ELSE IF Cardinality({key_sets[i] : i \in 1..Len(arr)}) = 1 THEN R(1, 1)
        ELSE IF all_keys # {} THEN R(Cardinality(common_keys), Cardinality(all_keys))
        ELSE R(0, 1)

array_item_patterns(key, value, path) ==
    IF ~(IsList(value) /\ Len(value.a) > 0) THEN <<>>
    ELSE (IF is_homogeneous_array(value.a)
          THEN <<Pattern("homogeneous_array", R(1, 1), path \o "." \o key, <<key>>,
                         Len(value.a), R(5, 10))>>
          ELSE <<>>)
         \o
         (IF AllDicts(value.a) /\ RLess(R(7, 10), calculate_schema_consistency(value.a))
          THEN LET consistency == calculate_schema_consistency(value.a)
                   size_factor == RMin(R(Len(value.a), 100), R(1, 1))
                   potential == RAdd(RAdd(R(5, 10), RMul(consistency, R(3, 10))),
                                     RMul(size_factor, R(2, 10)))
               IN  <<Pattern("consistent_schema_array", consistency, path \o "." \o key, <<key>>,
                             Len(value.a), RMin(potential, R(9, 10)))>>
          ELSE <<>>)

detect_array_patterns(d, path) ==
    IF ~IsDict(d) THEN <<>>
    ELSE Flatten([i \in 1..Len(d.o) |-> array_item_patterns(d.o[i][1], d.o[i][2], path)])

(* sep.join(parts) and str.split(sep), for a separator of one character *)
RECURSIVE Join(_, _)
Join(parts, sep) ==
    IF Len(parts) = 0 THEN ""
    ELSE IF Len(parts) = 1 THEN parts[1]
    ELSE parts[1] \o sep \o Join(Tail(parts), sep)

RECURSIVE Split(_, _)
Split(str, sep) ==
    LET at == {i \in 1..Len(str) : Char(str, i) = sep}
    IN  IF at = {} THEN <<str>>
        ELSE LET i == CHOOSE j \in at : \A k \in at : j <= k
             IN  <<SubSeq(str, 1, i - 1)>> \o Split(From(str, i), sep)

hash_structure(obj) == Join(Sorted(Keys(obj.o)), "|")

(* the (path, dict) pairs that collect_structures counts, in its order *)
RECURSIVE counted_structures(_, _)
counted_structures(d, p) ==
    IF IsDict(d)
    THEN (IF hash_structure(d) # "" THEN << <<p, d>> >> ELSE <<>>) \o
         Flatten([i \in 1..Len(d.o) |-> counted_structures(d.o[i][2], p \o "." \o d.o[i][1])])
    ELSE IF IsList(d)
    THEN Flatten([i \in 1..Len(d.a) |->
                    counted_structures(d.a[i], p \o "[" \o IntToStr(i - 1) \o "]")])
    ELSE <<>>

Take(s, n) == SubSeq(s, 1, IF Len(s) < n THEN Len(s) ELSE n)

(* the path of the first structure counted under hash h *)
first_location(occ, h) ==
    occ[CHOOSE i \in 1..Len(occ) :
            /\ hash_structure(occ[i][2]) = h
            /\ \A j \in 1..(i - 1) : hash_structure(occ[j][2]) # h][1]
(* the loop over structure_hashes.items() *)
repeated_patterns(occ) ==
    MapSeq(SelectSeq(CounterOf(MapSeq(occ, LAMBDA e : hash_structure(e[2]))),
                     LAMBDA e : e[2] >= 3),
           LAMBDA e : Pattern("repeated_structure", RMin(R(e[2], 10), R(1, 1)),
                              first_location(occ, e[1]), Take(Split(e[1], "|"), 5), e[2],
                              RMin(RAdd(R(5, 10), R(e[2], 20)), R(85, 100))))
detect_structure_patterns(d, path) == repeated_patterns(counted_structures(d, path))

detect_time_series(d, path) ==
    IF ~IsList(d) \/ Len(d.a) < 5 THEN <<>>
    ELSE IF AllDicts(d.a)
            /\ \E i \in 1..5 : \E key \in {"timestamp", "time", "created_at", "date", "datetime"} :
                   DictHas(d.a[i].o, key)
    THEN <<Pattern("time_series", R(8, 10), path, <<>>, Len(d.a), R(7, 10))>>
    ELSE <<>>

detect_graph_patterns(d, path) ==
    IF ~IsDict(d) THEN <<>>
    ELSE LET has_graph_structure ==
                 \E key \in {"nodes", "edges", "vertices", "connections", "links"} : DictHas(d.o, key)
             has_node_structure ==
                 Len(KeyMatches(<<"id", "neighbors", "adjacent", "children", "parents">>, d)) >= 2
         IN  IF has_graph_structure \/ has_node_structure
             THEN <<Pattern("graph_node", IF has_graph_structure THEN R(7, 10) ELSE R(5, 10),
                            path, <<>>, 0, R(6, 10))>>
             ELSE <<>>

detect_tree_patterns(d, path) ==
    IF ~IsDict(d) THEN <<>>
    ELSE IF Len(KeyMatches(<<"children", "parent", "left", "right", "subtree">>, d)) >= 1
    THEN <<Pattern("tree_structure",
                   IF IsList(DictGet(d.o, "children", Null)) THEN R(8, 10) ELSE R(5, 10),
                   path, <<>>, 0, R(55, 100))>>
    ELSE <<>>

(* str(v) for a scalar *)
PyStr(v) ==
    IF IsNull(v) THEN "None"
    ELSE IF IsBool(v) THEN (IF v.b THEN "True" ELSE "False")
    ELSE IF IsNum(v) THEN IntToStr(v.n)
    ELSE v.s

enum_item_patterns(key, value, path) ==
    IF ~(IsList(value) /\ Len(value.a) > 5) THEN <<>>
    ELSE LET unique_values == {PyStr(value.a[i]) :
                                  i \in {j \in 1..Len(value.a) :
                                            ~IsDict(value.a[j]) /\ ~IsList(value.a[j])}}
         IN  IF RLess(R(Cardinality(unique_values), 1), R(Len(value.a) * 3, 10))
             THEN <<Pattern("enum_values",
                            R(Len(value.a) - Cardinality(unique_values), Len(value.a)),
                            path \o "." \o key, <<>>, Len(value.a), R(6, 10))>>
             ELSE <<>>

detect_enum_patterns(d, path) ==
    IF ~IsDict(d) THEN <<>>
    ELSE Flatten([i \in 1..Len(d.o) |-> enum_item_patterns(d.o[i][1], d.o[i][2], path)])

NullCount(values) == Cardinality({i \in 1..Len(values) : IsNull(values[i])})

detect_sparse_patterns(d, path) ==
    IF IsDict(d)
    THEN IF Len(d.o) > 5 /\ RLess(R(5, 10), R(NullCount(Values(d.o)), Len(d.o)))
         THEN <<Pattern("sparse_array", R(NullCount(Values(d.o)), Len(d.o)), path, <<>>, 0,
                        RAdd(R(4, 10), RMul(R(NullCount(Values(d.o)), Len(d.o)), R(3, 10))))>>
         ELSE <<>>
    ELSE IF IsList(d) /\ Len(d.a) > 10 /\ RLess(R(5, 10), R(NullCount(d.a), Len(d.a)))
    THEN <<Pattern("sparse_array", R(NullCount(d.a), Len(d.a)), path, <<>>, Len(d.a), R(5, 10))>>
    ELSE <<>>

RECURSIVE Sum(_)
Sum(s) == IF Len(s) = 0 THEN 0 ELSE Head(s) + Sum(Tail(s))
Max(s) == CHOOSE m \in SeqToSet(s) : \A x \in SeqToSet(s) : x <= m

detect_deep_nesting(nesting_depths_, path) ==
    IF Len(nesting_depths_) > 0
       /\ (Max(nesting_depths_) > 5 \/ RLess(R(3, 1), R(Sum(nesting_depths_), Len(nesting_depths_))))
    THEN <<Pattern("deep_nesting", RMin(R(Max(nesting_depths_), 10), R(1, 1)), path, <<>>, 0,
                   R(4, 10))>>
    ELSE <<>>

(* list.sort(key=..., reverse=True): descending, equal keys keep their order *)
SortKey(p) == RMul(p.confidence, p.compression_potential)
SortedByKeyDescending(ps) ==
    LET before(i, j) == RLess(SortKey(ps[i]), SortKey(ps[j]))
                        \/ (REq(SortKey(ps[i]), SortKey(ps[j])) /\ j < i)
        rank(i) == Cardinality({j \in 1..Len(ps) : before(i, j)})
    IN  [r \in 1..Len(ps) |-> ps[CHOOSE i \in 1..Len(ps) : rank(i) = r - 1]]

(* analyze(data): the analyzer after the call; the list returned is its
   detected_patterns *)
run_detectors(self, d, path) ==
    [self EXCEPT !.detected_patterns = SortedByKeyDescending(
        detect_api_patterns(d, path) \o detect_database_patterns(d, path)
        \o detect_user_patterns(d, path) \o detect_nested_patterns(d, path)
        \o detect_pagination_patterns(d, path) \o detect_array_patterns(d, path)
        \o detect_structure_patterns(d, path) \o detect_time_series(d, path)
        \o detect_graph_patterns(d, path) \o detect_tree_patterns(d, path)
        \o detect_enum_patterns(d, path) \o detect_sparse_patterns(d, path)
        \o detect_deep_nesting(self.nesting_depths, path))]
analyze(d) == run_detectors(deep_traverse(d), d, "$")

(* Counter.most_common(n): by count, descending, equal counts in the order
   first encountered *)
most_common(counter, n) ==
    LET before(i, j) == counter[i][2] < counter[j][2] \/ (counter[i][2] = counter[j][2] /\ j < i)
        rank(i) == Cardinality({j \in 1..Len(counter) : before(i, j)})
    IN  Take([r \in 1..Len(counter) |-> counter[CHOOSE i \in 1..Len(counter) : rank(i) = r - 1]], n)

IsUpper(c) == 65 <= Ord(c) /\ Ord(c) <= 90
IsLower(c) == 97 <= Ord(c) /\ Ord(c) <= 122
LowerChar(c) == IF IsUpper(c) THEN Char(ASCII_97_126, Ord(c) - 64) ELSE c
RECURSIVE Lower(_)
Lower(str) == IF Len(str) = 0 THEN "" ELSE LowerChar(Char(str, 1)) \o Lower(From(str, 1))
EndsWith(str, suffix) ==
    Len(str) >= Len(suffix) /\ SubSeq(str, Len(str) - Len(suffix) + 1, Len(str)) = suffix
(* the characters of str that satisfy keep, in order *)
Filter(str, keep(_)) ==
    LET kept == SelectSeq([i \in 1..Len(str) |-> i], LAMBDA i : keep(Char(str, i)))
    IN  Join([q \in 1..Len(kept) |-> Char(str, kept[q])], "")
(* the first character of each part *)
RECURSIVE Initials(_)
Initials(parts) ==
    IF Len(parts) = 0 THEN "" ELSE Char(parts[1], 1) \o Initials(Tail(parts))

SUFFIXES == {"_id", "_name", "_code", "_type", "_status", "_at"}

(* _generate_abbreviation(key), for a key with no line break in it: the str
   returned, or the exception raised *)
(* re.sub(r'_(id|name|code|type|status|at)$', '', key) *)
strip_suffix(key) ==
    IF \E x \in SUFFIXES : EndsWith(key, x)
    THEN SubSeq(key, 1, Len(key) - Len(CHOOSE y \in SUFFIXES : EndsWith(key, y)))
    ELSE key
(* re.match(r'^[a-z]+[A-Z]', key) *)
IsCamel(key) ==
    \E n \in 1..(Len(key) - 1) :
        /\ \A i \in 1..n : IsLower(Char(key, i))
        /\ IsUpper(Char(key, n + 1))
abbreviate_parts(key_clean, parts) ==
    IF Len(parts) > 1 /\ Len(parts) <= 3
    THEN IF \E i \in 1..Len(parts) : parts[i] = "" THEN Raise("IndexError")
         ELSE Str(Initials(parts))
    ELSE IF key_clean = "" THEN Raise("IndexError")
    ELSE Str(Lower(Take(Char(key_clean, 1)
                        \o Filter(From(key_clean, 1),
                                  LAMBDA c : c \notin {"a", "e", "i", "o", "u",
                                                       "A", "E", "I", "O", "U"}), 4)))
abbreviate_clean(key, key_clean) ==
    IF IsCamel(key) THEN Str(Lower(Filter(key, IsUpper)))
    ELSE abbreviate_parts(key_clean, Split(key_clean, "_"))
generate_abbreviation(key) == abbreviate_clean(key, strip_suffix(key))

(* suggest_custom_abbreviations(): the dict returned, or the exception raised *)
suggest_for(frequent) ==
    Propagate(MapSeq(frequent, LAMBDA e : generate_abbreviation(e[1])),
              LAMBDA abbrev :
                  Obj(MapSeq(SelectSeq(Indices(frequent),
                                       LAMBDA i : abbrev[i].s # "" /\ abbrev[i].s # frequent[i][1]),
                             LAMBDA i : <<frequent[i][1], abbrev[i]>>)))
suggest_custom_abbreviations(key_frequency_) ==
    suggest_for(SelectSeq(most_common(key_frequency_, 20),
                          LAMBDA e : ~(e[2] < 3 \/ Len(e[1]) <= 3)))

(* Python floats of expected_savings: an IEEE 754 double x >= 0 is the pair
   <<h, l>> with x = (h * 2^30 + l) * 2^-59 and l < 2^30; every double in
   [0.0078125, 4) is such a pair.  Addition and int * float round to 53
   significant bits, ties to even. *)
DAddExact(x, y) == <<x[1] + y[1] + ((x[2] + y[2]) \div 2^30), (x[2] + y[2]) % 2^30>>
(* the unit in the last place of a value with high part h, in units of 2^-59 *)
RECURSIVE Ulp(_)
Ulp(h) == IF h < 2^23 THEN 1 ELSE 2 * Ulp(h \div 2)
RoundTo(x, u) ==
    IF (x[2] % u) * 2 < u \/ ((x[2] % u) * 2 = u /\ (x[2] \div u) % 2 = 0)
    THEN <<x[1], x[2] - (x[2] % u)>>
    ELSE DAddExact(<<x[1], x[2] - (x[2] % u)>>, <<0, u>>)
DRound(x) == RoundTo(x, Ulp(x[1]))
DAdd(x, y) == DRound(DAddExact(x, y))
RECURSIVE DTimesExact(_, _)
DTimesExact(k, x) == IF k = 0 THEN <<0, 0>> ELSE DAddExact(x, DTimesExact(k - 1, x))
DTimes(k, x) == DRound(DTimesExact(k, x))
DLess(x, y) == x[1] < y[1] \/ (x[1] = y[1] /\ x[2] < y[2])
(* min(x, y) *)
DMin(x, y) == IF DLess(y, x) THEN y ELSE x
(* the float literals of get_compression_strategy, by their source text *)
Float ==
    ("0.25" :> <<134217728, 0>>) @@ ("0.15" :> <<80530636, 858993456>>)
    @@ ("0.10" :> <<53687091, 214748368>>) @@ ("0.20" :> <<107374182, 429496736>>)
    @@ ("0.02" :> <<10737418, 257698038>>) @@ ("0.01" :> <<5368709, 128849019>>)
    @@ ("0.6" :> <<322122547, 214748352>>) @@ ("0.4" :> <<214748364, 858993472>>)
    @@ ("0.2" :> <<107374182, 429496736>>) @@ ("0.85" :> <<456340275, 214748352>>)
(* x += y for each y of ys, in order *)
RECURSIVE DAddAll(_, _)
DAddAll(x, ys) == IF Len(ys) = 0 THEN x ELSE DAddAll(DAdd(x, Head(ys)), Tail(ys))

(* what one pattern adds to the strategy: the flag set, the float added to
   expected_savings and the line appended to reasoning *)
NoStep == [flag |-> "", savings |-> <<0, 0>>, reasoning |-> <<>>]
SchemaStep(pattern) ==
    [flag |-> "use_schema_compression", savings |-> Float["0.25"],
     reasoning |-> <<"Schema compression recommended for " \o IntToStr(pattern.count)
                     \o " items with " \o Percent(pattern.confidence) \o " consistency">>]
PartialStep(pattern) ==
    [flag |-> "use_partial_schema", savings |-> Float["0.15"],
     reasoning |-> <<"Partial schema compression for " \o Percent(pattern.confidence)
                     \o " consistent array">>]
schema_step_at_or_above(pattern) ==
    IF ~RLess(pattern.confidence, R(8, 10)) THEN SchemaStep(pattern)
    ELSE IF ~RLess(pattern.confidence, R(5, 10)) THEN PartialStep(pattern)
    ELSE NoStep
schema_step(pattern) ==
    IF RLess(R(8, 10), pattern.confidence) THEN SchemaStep(pattern)
    ELSE IF RLess(R(5, 10), pattern.confidence) THEN PartialStep(pattern)
    ELSE NoStep
strategy_step(pattern) ==
    IF pattern.pattern_type = "consistent_schema_array" THEN schema_step(pattern)
    ELSE IF pattern.pattern_type = "repeated_structure"
    THEN IF pattern.count >= 3
         THEN [flag |-> "use_reference_compression",
               savings |-> DMin(Float["0.20"], DTimes(pattern.count, Float["0.02"])),
               reasoning |-> <<"Reference compression for structure repeated "
                               \o IntToStr(pattern.count) \o " times">>]
         ELSE NoStep
    ELSE IF pattern.pattern_type = "enum_values"
    THEN [flag |-> "use_string_dictionary", savings |-> Float["0.15"],
          reasoning |-> <<"String dictionary for repeated enum values">>]
    ELSE IF pattern.pattern_type \in {"time_series", "database_record"}
    THEN [flag |-> "use_value_compression", savings |-> Float["0.10"],
          reasoning |-> <<"Value compression for " \o pattern.pattern_type>>]
    ELSE NoStep

(* get_compression_strategy(data): the analyzer after the call and the
   CompressionStrategy returned, or the exception raised. *)
HasFlag(steps, name) == \E i \in 1..Len(steps) : steps[i].flag = name
LevelFor_at_or_above(savings) ==
    IF ~DLess(savings, Float["0.6"]) THEN 4 ELSE IF ~DLess(savings, Float["0.4"]) THEN 3
    ELSE IF ~DLess(savings, Float["0.2"]) THEN 2 ELSE 1
LevelFor(savings) ==
    IF DLess(Float["0.6"], savings) THEN 4 ELSE IF DLess(Float["0.4"], savings) THEN 3
    ELSE IF DLess(Float["0.2"], savings) THEN 2 ELSE 1
Verdict(savings) ==
    IF DLess(Float["0.6"], savings) THEN "EXTREME level recommended for maximum compression"
    ELSE IF DLess(Float["0.4"], savings) THEN "AGGRESSIVE level recommended for high compression"
    ELSE IF DLess(Float["0.2"], savings) THEN "STANDARD level provides good balance"
    ELSE "MINIMAL level sufficient for this data"
CompressionStrategy(patterns, steps, custom_abbrevs, savings) ==
    [t |-> "CompressionStrategy",
     use_schema_compression |-> HasFlag(steps, "use_schema_compression"),
     use_reference_compression |-> HasFlag(steps, "use_reference_compression"),
     use_string_dictionary |-> HasFlag(steps, "use_string_dictionary"),
     use_value_compression |-> HasFlag(steps, "use_value_compression"),
     use_partial_schema |-> HasFlag(steps, "use_partial_schema"),
     custom_abbreviations |-> custom_abbrevs,
     expected_savings |-> DMin(savings, Float["0.85"]),
     recommended_level |-> LevelFor(savings),
     patterns |-> patterns,
     reasoning |-> Flatten(MapSeq(steps, LAMBDA s : s.reasoning)) \o <<Verdict(savings)>>]
build_strategy(patterns, steps, custom_abbrevs) ==
    CompressionStrategy(patterns, steps, custom_abbrevs,
                        DAddAll(DAddAll(<<0, 0>>, MapSeq(steps, LAMBDA s : s.savings)),
                                IF Len(custom_abbrevs.o) > 0
                                THEN <<DTimes(Len(custom_abbrevs.o), Float["0.01"])>> ELSE <<>>))
strategy_of(self) ==
    [self |-> self,
     result |-> PropagateOne(suggest_custom_abbreviations(self.key_frequency),
                    LAMBDA custom_abbrevs :
                        build_strategy(self.detected_patterns,
                                       MapSeq(self.detected_patterns, strategy_step),
                                       custom_abbrevs))]
get_compression_strategy(d) == strategy_of(analyze(d))

(***************************************************************************)
(* The caller of the analyzer                                              *)
(***************************************************************************)
MaxCopies == 3

Rep(x, n) == Arr([i \in 1..n |-> x])
AnKeyLists == { <<"id", "created_at", "updated_at">>,
                <<"username", "email", "status">>,
                <<"status", "data", "message", "page", "per_page", "limit">>,
                <<"userName", "first_name", "order_status">>,
                <<"children", "id", "nodes">>,
                <<"_name", "value">>,
                <<"__typename", "id">>,
                <<"description", "timestamp", "x">> }
AnValueLists == { <<Num(1), Str(TS), Str("ab"), Null, Null, Null>>,
                  <<Null, Bool(TRUE), Arr(<<Num(1), Bool(TRUE)>>), Null, Null, Null>> }
AnObjects == {MkObj(ks, vs) : ks \in AnKeyLists, vs \in AnValueLists}
Deep == Obj(<< <<"a", Obj(<< <<"b", Obj(<< <<"c", Obj(<< <<"d", Obj(<< <<"e",
            Obj(<< <<"f", Num(1)>> >>)>> >>)>> >>)>> >>)>> >>)>> >>)
Enum12 == Arr([i \in 1..12 |-> Str(IF i % 2 = 1 THEN "a" ELSE "b")])
XRows == Arr(<<MkObj(<<"x">>, <<Num(1)>>), MkObj(<<"x">>, <<Num(2)>>)>>)
(* documents whose findings add up to savings at, between and beyond the
   thresholds of the recommended level *)
StrategyDocs ==
    { Rep(Obj(<< <<"p", Obj(<< <<"q", MkObj(<<"x">>, Numbers)>> >>)>> >>), 10),
      Obj(<< <<"e", Enum12>>, <<"f", Enum12>>, <<"g", Enum12>>, <<"h", Enum12>> >>),
      Obj(<< <<"e", Enum12>>, <<"u", XRows>>, <<"v", XRows>>, <<"w", XRows>> >>),
      Obj(<< <<"rows", Arr(<<MkObj(<<"a", "b", "c", "d">>, Numbers),
                             MkObj(<<"a", "b", "c", "d", "e">>, Numbers \o <<Num(1)>>),
                             MkObj(<<"a", "b", "c", "d">>, Numbers),
                             MkObj(<<"a", "b", "c", "d">>, Numbers),
                             MkObj(<<"a", "b", "c", "d", "e">>, Numbers \o <<Num(1)>>),
                             MkObj(<<"a", "b", "c", "d">>, Numbers)>>)>> >>) }
    \cup { Obj(<< <<"e", Enum12>>, <<"r", Rep(MkObj(<<"x", "y">>, Numbers), n)>> >>) :
               n \in {2, 3, 6} }
(* an address below a non-root object, and a sparse array below a key *)
ContainerDocs ==
    { Obj(<< <<"user", Obj(<< <<"address",
                 MkObj(<<"street", "city", "state", "country">>, Numbers)>> >>)>> >>),
      Obj(<< <<"values", Rep(Null, 11)>> >>) }
(* keys with a common prefix, three objects without keys, and a key
   holding the separator of hash_structure *)
ShapeDocs ==
    { MkObj(<<"product_id", "product_name", "product_category", "product_price",
              "product_stock">>, Numbers \o <<Num(1)>>),
      Rep(Obj(<<>>), 3),
      Arr(<<MkObj(<<"a|b">>, Numbers), MkObj(<<"a", "b">>, Numbers),
            MkObj(<<"a", "b">>, Numbers)>>) }
AnDocs ==
    AnObjects
    \cup {Rep(x, n) : x \in AnObjects, n \in 0..MaxCopies}
    \cup {Obj(<< <<"items", Rep(x, n)>>, <<"meta", x>> >>) : x \in AnObjects, n \in 1..MaxCopies}
    \cup { Deep,
           Obj(<< <<"tags", Rep(Str("a"), 6)>>,
                  <<"address", MkObj(<<"street", "city", "state", "country">>, Numbers)>> >>),
           Obj(<< <<"rows", Arr(<<MkObj(<<"id", "name", "type">>, Numbers),
                                  MkObj(<<"id", "name", "type", "x">>, Numbers)>>)>> >>),
           Rep(MkObj(<<"timestamp", "value">>, Numbers), 5),
           Rep(Null, 11) }
    \cup StrategyDocs \cup ContainerDocs \cup ShapeDocs

InitAn ==
    /\ InitConverters /\ InitThreads /\ InitAnalyzer /\ InitServer
    /\ input \in AnDocs
    /\ op = "init" /\ exc = "none" /\ data = Null
    /\ toon = NoText /\ prev_toon = NoText /\ fed = NoText /\ json_out = NoText

StoreAnalyzer(self) ==
    /\ detected_patterns' = self.detected_patterns
    /\ key_frequency' = self.key_frequency
    /\ value_type_counts' = self.value_type_counts
    /\ nesting_depths' = self.nesting_depths
    /\ array_sizes' = self.array_sizes

(* patterns = analyzer.analyze(input) *)
Analyze ==
    /\ \E self \in {analyze(input)} :
           /\ StoreAnalyzer(self)
           /\ returned' = Arr(self.detected_patterns)
    /\ op' = "analyze" /\ exc' = "none"
    /\ UNCHANGED <<srv_vars, conv_vars, thr_vars, input, data, toon, prev_toon, fed, json_out>>

(* strategy = analyzer.get_compression_strategy(input) *)
GetCompressionStrategy ==
    /\ \E r \in {get_compression_strategy(input)} :
           /\ StoreAnalyzer(r.self)
           /\ returned' = IF IsRaise(r.result) THEN Null ELSE r.result
           /\ exc' = IF IsRaise(r.result) THEN r.result.e ELSE "none"
    /\ op' = "get_compression_strategy"
    /\ UNCHANGED <<srv_vars, conv_vars, thr_vars, input, data, toon, prev_toon, fed, json_out>>

(* analyzer.suggest_custom_abbreviations(), on the counts of the last analysis *)
SuggestCustomAbbreviations ==
    /\ \E r \in {suggest_custom_abbreviations(key_frequency)} :
           /\ returned' = IF IsRaise(r) THEN Null ELSE r
           /\ exc' = IF IsRaise(r) THEN r.e ELSE "none"
    /\ op' = "suggest_custom_abbreviations"
    /\ UNCHANGED <<srv_vars, conv_vars, thr_vars, input, data, toon, prev_toon, fed, json_out,
                   detected_patterns, key_frequency, value_type_counts, nesting_depths,
                   array_sizes>>

NextAn == Analyze \/ GetCompressionStrategy \/ SuggestCustomAbbreviations

SpecAn == InitAn /\ [][NextAn]_vars

(***************************************************************************)
(* JSON2TOONServer: call_tool and the tool handlers.  The outcome of a      *)
(* handler is the statistics it leaves and the text it returns or the      *)
(* exception it raises.  A result dict is a record; the ratios and         *)
(* percentages computed from the sizes, the start time and the uptime are  *)
(* not kept.                                                               *)
(***************************************************************************)
MaxCalls == 2

Outcome(st, result) == [stats |-> st, result |-> result]
TextContent(text) == [type |-> "text", text |-> text]
(* f"Error: {str(e)}": str(e) is represented by the class of e *)
ErrorText(e) == [t |-> "text", kind |-> "error", e |-> e]

(* json.loads(s) *)
loads(s) == IF s.kind = "json" THEN s.tree ELSE Raise("JSONDecodeError")
(* CompressionLevel(arguments.get("level", 2)) *)
level_of(args) ==
    IF IsNum(DictGet(args.o, "level", Num(2)))
       /\ DictGet(args.o, "level", Num(2)).n \in CompressionLevel
    THEN DictGet(args.o, "level", Num(2)) ELSE Raise("ValueError")
(* converter.json_to_toon(data) on a decoded value: a str is parsed again
   (the str values of the documents below are not JSON texts) *)
to_toon(self, d) ==
    IF IsStr(d) THEN [self |-> self, result |-> Raise("JSONDecodeError")]
    ELSE json_to_toon(self, d)

(* the documents sent to the server *)
Record   == MkObj(<<"id", "name">>, Numbers)
Rows     == Arr(<<MkObj(<<"id", "name", "type">>, Numbers),
                  MkObj(<<"id", "name", "type">>, Numbers),
                  MkObj(<<"id", "name", "type">>, Numbers)>>)

(* len(base64.b64encode(zlib.compress(json_str.encode('utf-8')))) for the
   inner envelope of each document, as zlib 1.2.13 compresses it *)
B64Len == (Record :> 68) @@ (Rows :> 140)
b64_len(json_str) ==
    B64Len[CHOOSE d \in DOMAIN B64Len :
              DictGet(json_to_toon(init(EXTREME), d).result.tree.o, "d", Null).z = json_str]

(* len(json.dumps(v, separators=(item, key))) for separators of the given
   lengths *)
quoted_len(s) == Len(s) + 2 + Cardinality({i \in 1..Len(s) : Char(s, i) \in {"\"", "\\"}})
Between(n, sep) == IF n > 0 THEN (n - 1) * sep ELSE 0
RECURSIVE dumps_len(_, _, _)
dumps_len(v, item, key) ==
    IF IsNull(v) THEN 4
    ELSE IF IsBool(v) THEN (IF v.b THEN 4 ELSE 5)
    ELSE IF IsNum(v) THEN Len(IntToStr(v.n))
    ELSE IF v.t = "str" THEN quoted_len(v.s)
    ELSE IF v.t = "zstr" THEN 2 + b64_len(v.z)
    ELSE IF IsList(v)
    THEN 2 + Sum([i \in 1..Len(v.a) |-> dumps_len(v.a[i], item, key)]) + Between(Len(v.a), item)
    ELSE 2 + Sum([i \in 1..Len(v.o) |->
                    quoted_len(v.o[i][1]) + key + dumps_len(v.o[i][2], item, key)])
           + Between(Len(v.o), item)
(* len(s) of a text written with separators=(',', ':') *)
text_len(s) == dumps_len(s.tree, 1, 1)

(* converter.calculate_metrics(original_json, toon_str) *)
ConversionMetrics(self, original_size, toon_str) ==
    [original_size |-> original_size, compressed_size |-> text_len(toon_str),
     compression_level |-> self.level,
     abbreviations_used |-> self.metrics.abbreviations_used,
     schema_compressions |-> self.metrics.schema_compressions,
     value_compressions |-> self.metrics.value_compressions,
     reference_count |-> self.metrics.reference_count]

(* "Update stats" of _convert_to_toon *)
update_stats(st, m) ==
    [st EXCEPT !.total_conversions = @ + 1,
               !.total_bytes_saved = @ + m.original_size - m.compressed_size,
               !.total_original_bytes = @ + m.original_size,
               !.compression_by_level[m.compression_level] = @ + 1]
(* _convert_to_toon from the json_to_toon call, whose outcome is r *)
converted(st, m) == Outcome(update_stats(st, m), Dumps([metrics |-> m], 2))
convert_with(st, json_data, r) ==
    IF IsRaise(r.result) THEN Outcome(st, r.result)
    ELSE converted(st, ConversionMetrics(r.self, text_len(json_data), r.result))
tool_convert_to_toon(st, args) ==
    IF ~DictHas(args.o, "json_data") THEN Outcome(st, Raise("KeyError"))
    ELSE IF IsRaise(level_of(args)) THEN Outcome(st, level_of(args))
    ELSE IF IsRaise(loads(DictGet(args.o, "json_data", Null)))
    THEN Outcome(st, loads(DictGet(args.o, "json_data", Null)))
    ELSE convert_with(st, DictGet(args.o, "json_data", Null),
                      to_toon(init(level_of(args).n), loads(DictGet(args.o, "json_data", Null))))

(* _calculate_metrics: the same calls, the statistics left alone *)
tool_calculate_metrics(st, args) ==
    Outcome(st, tool_convert_to_toon(st, args).result)

(* _convert_to_json *)
tool_convert_to_json(st, args) ==
    IF ~DictHas(args.o, "toon_data") THEN Outcome(st, Raise("KeyError"))
    ELSE Outcome(st, toon_to_json(DictGet(args.o, "toon_data", Null)))

(* "Update pattern stats" *)
RECURSIVE count_patterns(_, _)
count_patterns(counts, patterns) ==
    IF Len(patterns) = 0 THEN counts
    ELSE count_patterns(DictSet(counts, Head(patterns).pattern_type,
                                DictGet(counts, Head(patterns).pattern_type, 0) + 1),
                        Tail(patterns))
(* _analyze_patterns, on the analyzer as analyze leaves it *)
analyzed(st, patterns) ==
    Outcome([st EXCEPT !.patterns_detected = count_patterns(@, patterns)],
            Dumps([total_patterns |-> Len(patterns), patterns |-> patterns], 2))
tool_analyze_patterns(st, args) ==
    IF ~DictHas(args.o, "json_data") THEN Outcome(st, Raise("KeyError"))
    ELSE IF IsRaise(loads(DictGet(args.o, "json_data", Null)))
    THEN Outcome(st, loads(DictGet(args.o, "json_data", Null)))
    ELSE analyzed(st, analyze(loads(DictGet(args.o, "json_data", Null))).detected_patterns)

(* the loop of _batch_convert over data_array, every call on the same
   converter: one entry per item converted, and the exception of the item
   whose call raised, which ends the loop *)
RECURSIVE batch_results(_, _)
batch_entry(item, rest, r) ==
    IF IsRaise(r.result) THEN <<r.result>>
    ELSE <<[t |-> "entry", toon |-> r.result,
            savings_bytes |-> dumps_len(item, 2, 2) - text_len(r.result)]>>
         \o batch_results(r.self, rest)
batch_results(self, items) ==
    IF Len(items) = 0 THEN <<>>
    ELSE batch_entry(Head(items), Tail(items), to_toon(self, Head(items)))
total_savings_bytes(results) == Sum([i \in 1..Len(results) |-> results[i].savings_bytes])
(* _batch_convert after the loop *)
batch_stats(st, results) ==
    [st EXCEPT !.total_conversions = @ + Len(results),
               !.total_bytes_saved = @ + total_savings_bytes(results)]
batch_report(results) ==
    IF Len(results) = 0 THEN Raise("ZeroDivisionError")
    ELSE Dumps([converted_count |-> Len(results),
                total_savings_bytes |-> total_savings_bytes(results),
                results |-> results], 2)
batch_done_counting_each(st, results) ==
    IF \E i \in 1..Len(results) : IsRaise(results[i])
    THEN Outcome(batch_stats(st, SubSeq(results, 1, Len(results) - 1)), results[Len(results)])
    ELSE Outcome(batch_stats(st, results), batch_report(results))
batch_done(st, results) ==
    IF \E i \in 1..Len(results) : IsRaise(results[i])
    THEN Outcome(st, results[Len(results)])
    ELSE Outcome(batch_stats(st, results), batch_report(results))
tool_batch_convert(st, args) ==
    IF ~DictHas(args.o, "json_array") THEN Outcome(st, Raise("KeyError"))
    ELSE IF IsRaise(level_of(args)) THEN Outcome(st, level_of(args))
    ELSE IF IsRaise(loads(DictGet(args.o, "json_array", Null)))
    THEN Outcome(st, loads(DictGet(args.o, "json_array", Null)))
    ELSE IF ~IsList(loads(DictGet(args.o, "json_array", Null)))
    THEN Outcome(st, Raise("ValueError"))
    ELSE batch_done(st, batch_results(init(level_of(args).n),
                                      loads(DictGet(args.o, "json_array", Null)).a))

(* _get_server_stats *)
tool_get_server_stats(st, args) == Outcome(st, Dumps(st, 2))

(* call_tool(name, arguments): the try block and the handler *)
dispatch(name, st, args) ==
    IF name = "convert_to_toon" THEN tool_convert_to_toon(st, args)
    ELSE IF name = "convert_to_json" THEN tool_convert_to_json(st, args)
    ELSE IF name = "analyze_patterns" THEN tool_analyze_patterns(st, args)
    ELSE IF name = "calculate_metrics" THEN tool_calculate_metrics(st, args)
    ELSE IF name = "batch_convert" THEN tool_batch_convert(st, args)
    ELSE IF name = "get_server_stats" THEN tool_get_server_stats(st, args)
    ELSE Outcome(st, Raise("ValueError"))
(* the except clause and the return *)
text_of(result) == IF IsRaise(result) THEN ErrorText(result.e) ELSE result
respond(outcome) ==
    [stats |-> outcome.stats, response |-> <<TextContent(text_of(outcome.result))>>]
call_tool(name, st, args) == respond(dispatch(name, st, args))

(***************************************************************************)
(* The client of the server.  The tools that neither read nor write the    *)
(* statistics and are not modelled: get_optimal_strategy, smart_optimize,  *)
(* compare_levels, validate_toon, suggest_abbreviations, estimate_savings. *)
(***************************************************************************)
Args(key, text, lvl) == Obj(<< <<key, text>>, <<"level", Num(lvl)>> >>)
NoLevel(key, text) == Obj(<< <<key, text>> >>)
ConvertArgs == {Args("json_data", Dumps(Rows, 0), l) : l \in 0..5}
               \cup {NoLevel("json_data", Dumps(Rows, 0)), NoLevel("json_data", Garbage),
                     Obj(<<>>)}
MetricsArgs == {Args("json_data", Dumps(Rows, 0), 4), Args("json_data", Dumps(Rows, 0), 5),
                NoLevel("json_data", Garbage)}
BatchArgs == {NoLevel("json_array", Dumps(Arr(<<Record, Rows>>), 0)),
              Args("json_array", Dumps(Arr(<<Record, Rows>>), 0), 0),
              Args("json_array", Dumps(Arr(<<Rows>>), 0), 4),
              NoLevel("json_array", Dumps(Arr(<<Record, Str("abcd")>>), 0)),
              NoLevel("json_array", Dumps(Arr(<<>>), 0)),
              NoLevel("json_array", Dumps(Record, 0)),
              NoLevel("json_array", Garbage)}
DecodeArgs == {NoLevel("toon_data", json_to_toon(init(AGGRESSIVE), Rows).result),
               NoLevel("toon_data", Dumps(Obj(<< <<"d", Obj(<< <<"i", Num(1)>> >>)>> >>), 0)),
               NoLevel("toon_data", Garbage)}
AnalyzeArgs == {NoLevel("json_data", Dumps(Rows, 0)), NoLevel("json_data", Garbage)}

InitSrv ==
    /\ InitConverters /\ InitThreads /\ InitAnalyzer /\ InitServer
    /\ input = Null
    /\ op = "init" /\ exc = "none" /\ data = Null
    /\ toon = NoText /\ prev_toon = NoText /\ fed = NoText /\ json_out = NoText

(* the calls made are those that leave every counter within the bound *)
Bounded(st) ==
    /\ st.total_conversions <= MaxCalls
    /\ \A i \in 1..Len(st.patterns_detected) : st.patterns_detected[i][2] <= MaxCalls

(* await call_tool(name, args) *)
CallTool(name, args) ==
    /\ tool' = name /\ arguments' = args
    /\ \E r \in {call_tool(name, stats, args)} :
           Bounded(r.stats) /\ stats' = r.stats /\ response' = r.response
    /\ UNCHANGED <<conv_vars, seq_vars, thr_vars, returned>>
KeepAnalyzer ==
    UNCHANGED <<detected_patterns, key_frequency, value_type_counts, nesting_depths,
                array_sizes>>

ConvertToToon(args) == CallTool("convert_to_toon", args) /\ KeepAnalyzer
ConvertToJson(args) == CallTool("convert_to_json", args) /\ KeepAnalyzer
CalculateMetrics(args) == CallTool("calculate_metrics", args) /\ KeepAnalyzer
BatchConvert(args) == CallTool("batch_convert", args) /\ KeepAnalyzer
GetServerStats == CallTool("get_server_stats", Obj(<<>>)) /\ KeepAnalyzer
UnknownTool == CallTool("unknown_tool", Obj(<<>>)) /\ KeepAnalyzer
(* with self.analyzer.analyze(data) inside _analyze_patterns *)
AnalyzePatterns(args) ==
    /\ CallTool("analyze_patterns", args)
    /\ IF IsRaise(loads(DictGet(args.o, "json_data", Null)))
       THEN KeepAnalyzer
       ELSE StoreAnalyzer(analyze(loads(DictGet(args.o, "json_data", Null))))

NextSrv ==
    \/ \E args \in ConvertArgs : ConvertToToon(args)
    \/ \E args \in DecodeArgs : ConvertToJson(args)
    \/ \E args \in MetricsArgs : CalculateMetrics(args)
    \/ \E args \in BatchArgs : BatchConvert(args)
    \/ \E args \in AnalyzeArgs : AnalyzePatterns(args)
    \/ GetServerStats
    \/ UnknownTool

SpecSrv == InitSrv /\ [][NextSrv]_vars

(***************************************************************************)
(* Properties of the codec                                                 *)
(***************************************************************************)
Decoded == op = "toon_to_json" \/ op = "convert_toon_to_json"
FedObject == fed.kind = "json" /\ IsDict(fed.tree)

(* C1  Round-trip law: decoding the text json_to_toon returned for a
   document, at any level, gives a document structurally equal to it. *)
C1_RoundTrip ==
    op = "toon_to_json" => (exc = "none" /\ DocEq(json_out.tree, data))

(* C2  Abbreviation bijection: ABBREV_KEY[KEY_ABBREV[k]] = k for every
   canonical key k, so the two tables have the same number of entries. *)
C2_AbbreviationBijection ==
    op = "json_to_toon" =>
    /\ \A i \in 1..Len(KEY_ABBREV) : expand(abbreviate(KEY_ABBREV[i][1])) = KEY_ABBREV[i][1]
    /\ Len(ABBREV_KEY) = Len(KEY_ABBREV)

(* C3  Idempotent re-encoding: encoding the decoded document again at the
   same level returns the text the first encoding returned. *)
C3_IdempotentReEncoding ==
    op = "re_encode" => toon = prev_toon

(* C6  Decoding an object envelope without the "_toon" tag raises ValueError
   and returns nothing, whatever else the envelope holds. *)
C6_UnversionedRejected ==
    (Decoded /\ FedObject /\ ~DictHas(fed.tree.o, "_toon"))
        => (exc = "ValueError" /\ json_out = NoText)
C6_Witness ==
    /\ Decoded /\ FedObject /\ ~DictHas(fed.tree.o, "_toon")
    /\ DictHas(fed.tree.o, "d") /\ DictHas(fed.tree.o, "_zlib") /\ DictHas(fed.tree.o, "_lvl")
    /\ exc = "ValueError"

(* C7  Every malformed envelope is rejected with the same error as the
   unversioned one (ValueError) and no result: a versioned envelope with no
   data field, a non-object envelope, a compressed wrapper whose inner
   payload has no version tag. *)
InnerOf(tree) == DictGet(tree.o, "d", Null).z
Malformed ==
    \/ fed.kind = "garbage"
    \/ fed.kind = "json" /\ ~IsDict(fed.tree)
    \/ FedObject /\ ~DictHas(fed.tree.o, "_toon")
    \/ FedObject /\ ~DictHas(fed.tree.o, "d")
    \/ /\ FedObject /\ DictHas(fed.tree.o, "_zlib") /\ DictHas(fed.tree.o, "d")
       /\ DictGet(fed.tree.o, "d", Null).t = "zstr"
       /\ \/ InnerOf(fed.tree).kind # "json"
          \/ ~IsDict(InnerOf(fed.tree).tree)
          \/ ~DictHas(InnerOf(fed.tree).tree.o, "_toon")
C7_MalformedRejected ==
    (Decoded /\ Malformed) => (IsValueError(Raise(exc)) /\ json_out = NoText)

(* C8  An out-of-range level is rejected on both paths: no converter, hence
   no envelope, exists for a level outside 1..4, and decoding an envelope
   whose "_lvl" is outside 1..4 raises and returns no document. *)
FedLevel == DictGet(fed.tree.o, "_lvl", Null)
C8_LevelRejected ==
    /\ \A c \in Converters : level[c] \in CompressionLevel
    /\ (Decoded /\ FedObject /\ IsNum(FedLevel) /\ FedLevel.n \notin CompressionLevel)
           => (exc # "none" /\ json_out = NoText)

(* every value inside a tree, the tree included *)
RECURSIVE Nodes(_)
Nodes(d) ==
    {d} \cup (IF IsList(d) THEN UNION {Nodes(d.a[i]) : i \in 1..Len(d.a)}
              ELSE IF IsDict(d) THEN UNION {Nodes(d.o[i][2]) : i \in 1..Len(d.o)}
              ELSE {})
KeysIn(d) == UNION {KeySet(n) : n \in {m \in Nodes(d) : IsDict(m)}}
Blocks(d) == {n \in Nodes(d) : IsDict(n) /\ DictHas(n.o, "_sch") /\ DictHas(n.o, "_dat")}
InnerEnvelope(text) ==
    IF DictHas(text.tree.o, "_zlib") THEN InnerOf(text.tree).tree ELSE text.tree

(* the techniques visible in the envelope text returned for document d *)
Techniques(d, text) ==
    LET inner == InnerEnvelope(text)
        body == DictGet(inner.o, "d", Null)
        out == Nodes(body)
        in == Nodes(d)
        names == KeysIn(body) \cup UNION {{e.s : e \in SeqToSet(DictGet(b.o, "_sch", Null).a)} : b \in Blocks(body)}
    IN  {t \in {"key abbreviation", "null token", "bool token", "schema block",
                "reference cache", "partial schema", "string dictionary",
                "value-pattern tag", "deflate wrapper"} :
           \/ t = "key abbreviation" /\ \E k \in KeysIn(d) : abbreviate(k) # k /\ abbreviate(k) \in names
           \/ t = "null token" /\ Null \in in /\ Str("~") \in out
           \/ t = "bool token" /\ \/ Bool(TRUE) \in in /\ Str("T") \in out
                                  \/ Bool(FALSE) \in in /\ Str("F") \in out
           \/ t = "schema block" /\ Blocks(body) # {}
           \/ t = "reference cache" /\ DictHas(inner.o, "_refs")
           \/ t = "partial schema" /\ "_opt" \in KeysIn(body)
           \/ t = "string dictionary" /\ DictHas(inner.o, "_dict")
           \/ t = "value-pattern tag" /\ \E n \in in : /\ n.t = "str"
                                                       /\ \/ Str("$ts:" \o n.s) \in out
                                                          \/ Str("$uid:" \o n.s) \in out
           \/ t = "deflate wrapper" /\ DictHas(text.tree.o, "_zlib")}
Encoded == op = "json_to_toon" \/ op = "re_encode"
NextLevelText == json_to_toon(init(level["c1"] + 1), data).result

(* C9  Monotonic technique superset: for the document just encoded at level
   L in 1..3, every technique visible in its envelope is also visible in
   the envelope the encoder returns for the same document at level L+1. *)
C9_MonotonicTechniques ==
    (Encoded /\ level["c1"] < EXTREME)
        => Techniques(data, toon) \subseteq Techniques(data, NextLevelText)
C9_Witness ==
    /\ op = "json_to_toon" /\ level["c1"] = STANDARD
    /\ {"key abbreviation", "schema block", "reference cache"} \subseteq Techniques(data, toon)
    /\ "string dictionary" \in Techniques(data, NextLevelText) \ Techniques(data, toon)

(* C10 At Extreme level the returned text is the wrapper {"_toon": "2.0",
   "_lvl": 4, "_zlib": true, "d": ...} whose "d" is the deflated, base64
   coded serialisation of the inner envelope, which is the Aggressive
   envelope of the same document with "_lvl" 4; decoding the wrapper gives
   what decoding the inner envelope gives. *)
StateResult == IF exc = "none" THEN json_out ELSE Raise(exc)
C10_ExtremeWrapper ==
    /\ (Encoded /\ level["c1"] = EXTREME) =>
           /\ toon.kind = "json" /\ IsDict(toon.tree)
           /\ Keys(toon.tree.o) = <<"_toon", "_lvl", "_zlib", "d">>
           /\ Values(toon.tree.o)[1] = Str("2.0")
           /\ Values(toon.tree.o)[2] = Num(4)
           /\ Values(toon.tree.o)[3] = Bool(TRUE)
           /\ Values(toon.tree.o)[4].t = "zstr"
           /\ InnerOf(toon.tree).kind = "json"
           /\ DictSet(InnerOf(toon.tree).tree.o, "_lvl", Num(AGGRESSIVE))
                  = json_to_toon(init(AGGRESSIVE), data).result.tree.o
    /\ (op = "toon_to_json" /\ level["c1"] = EXTREME) =>
           StateResult = toon_to_json(InnerOf(fed.tree))
C10_Witness ==
    /\ op = "toon_to_json" /\ level["c1"] = EXTREME
    /\ exc = "none" /\ DocEq(json_out.tree, data)
    /\ DictHas(InnerOf(fed.tree).tree.o, "_dict")
    /\ DictHas(InnerOf(fed.tree).tree.o, "_refs")

(* C5  Call-scoped caches: whatever the interleaving of two json_to_toon
   calls, on one converter or on two, the text a call returns is the text
   the same call returns on a converter nobody else is using. *)
C5_CallScopedCaches ==
    \A t \in Threads :
        pc[t] = "done" =>
            t_ret[t] = json_to_toon(init(level[t_conv[t]]), t_data[t]).result

(* C4  The pattern detector and the strategy planner never fail: analyze
   and get_compression_strategy, with the custom-abbreviation synthesis the
   latter runs, return a result for every document and raise nothing. *)
C4_AnalyzerNeverRaises ==
    op \in {"analyze", "get_compression_strategy"} => (exc = "none" /\ returned # Null)

(***************************************************************************)
(* Properties of the codec, continued                                      *)
(***************************************************************************)
(* the "d" field of the envelope last given to toon_to_json, unwrapped *)
FedBody == DictGet(InnerEnvelope(fed).o, "d", Null)
UniformArray(d) ==
    /\ IsList(d) /\ Len(d.a) > 0 /\ AllDicts(d.a)
    /\ \A i \in 1..Len(d.a) : KeySet(d.a[i]) = KeySet(d.a[1])

(* C11 A non-empty array of objects that all have the key set K is encoded,
   at STANDARD or above, as a block whose "_sch" has |K| abbreviated keys
   and whose "_dat" has one row of |K| values per element, and decoding the
   block gives back the objects in their order. *)
C11_SchemaBlock ==
    (op = "toon_to_json" /\ level["c1"] >= STANDARD /\ UniformArray(data)) =>
        /\ IsDict(FedBody) /\ Keys(FedBody.o) = <<"_sch", "_dat">>
        /\ IsList(DictGet(FedBody.o, "_sch", Null))
        /\ Len(DictGet(FedBody.o, "_sch", Null).a) = Cardinality(KeySet(data.a[1]))
        /\ \A e \in SeqToSet(DictGet(FedBody.o, "_sch", Null).a) :
               e \in {Str(abbreviate(k)) : k \in KeySet(data.a[1])}
        /\ IsList(DictGet(FedBody.o, "_dat", Null))
        /\ Len(DictGet(FedBody.o, "_dat", Null).a) = Len(data.a)
        /\ \A row \in SeqToSet(DictGet(FedBody.o, "_dat", Null).a) :
               IsList(row) /\ Len(row.a) = Cardinality(KeySet(data.a[1]))
        /\ exc = "none"
        /\ IsList(json_out.tree) /\ Len(json_out.tree.a) = Len(data.a)
        /\ \A i \in 1..Len(data.a) : DocEq(json_out.tree.a[i], data.a[i])

(* C12 At MINIMAL an object is encoded as an object with as many entries,
   its keys replaced by their abbreviations, its numbers and strings
   unchanged, with no schema block, no "_refs" and no "_dict", and decoding
   gives back the object. *)
C12_MinimalObject ==
    (op = "toon_to_json" /\ level["c1"] = MINIMAL /\ IsDict(data)) =>
        /\ IsDict(FedBody) /\ Len(FedBody.o) = Len(data.o)
        /\ \A i \in 1..Len(data.o) :
               /\ FedBody.o[i][1] = abbreviate(data.o[i][1])
               /\ (IsNum(data.o[i][2]) \/ IsStr(data.o[i][2])) => FedBody.o[i][2] = data.o[i][2]
        /\ Blocks(FedBody) = {}
        /\ ~DictHas(fed.tree.o, "_refs") /\ ~DictHas(fed.tree.o, "_dict")
        /\ exc = "none" /\ DocEq(json_out.tree, data)

(* a document with values, all of them null, true or false *)
NullBoolOnly(d) ==
    /\ \A n \in Nodes(d) : IsNull(n) \/ IsBool(n) \/ IsList(n) \/ IsDict(n)
    /\ \E n \in Nodes(d) : IsNull(n) \/ IsBool(n)

(* C13 At every level None is encoded as "~", True as "T" and False as
   "F", decoding maps each token back to the value that produced it, and a
   document whose values are null, true or false decodes to itself. *)
C13_NullBoolTokens ==
    Decoded =>
        /\ \A l \in CompressionLevel :
               /\ convert_to_toon(init(l), Null) = Str("~")
               /\ convert_to_toon(init(l), Bool(TRUE)) = Str("T")
               /\ convert_to_toon(init(l), Bool(FALSE)) = Str("F")
        /\ convert_from_toon(Str("~"), Obj(<<>>), Obj(<<>>)) = Null
        /\ convert_from_toon(Str("T"), Obj(<<>>), Obj(<<>>)) = Bool(TRUE)
        /\ convert_from_toon(Str("F"), Obj(<<>>), Obj(<<>>)) = Bool(FALSE)
        /\ (op = "toon_to_json" /\ NullBoolOnly(data))
               => (exc = "none" /\ DocEq(json_out.tree, data))

(* C14 Keys are preserved: expand undoes abbreviate on every key of the
   document encoded, and a key that is not a key of KEY_ABBREV is left
   unchanged by the encoder and is a key of the decoded document. *)
C14_KeysPreserved ==
    (op = "toon_to_json" /\ exc = "none") =>
        \A k \in KeysIn(data) :
            /\ expand(abbreviate(k)) = k
            /\ ~DictHas(KEY_ABBREV, k) => (abbreviate(k) = k /\ k \in KeysIn(json_out.tree))

(* y holds, at every position of x it still has, the str x holds there *)
RECURSIVE StringsPreserved(_, _)
StringsPreserved(x, y) ==
    IF IsStr(x) THEN y = x
    ELSE IF IsList(x)
    THEN IsList(y) /\ Len(y.a) = Len(x.a)
         /\ \A i \in 1..Len(x.a) : StringsPreserved(x.a[i], y.a[i])
    ELSE IF IsDict(x)
    THEN IsDict(y)
         /\ \A i \in 1..Len(x.o) :
                DictHas(y.o, x.o[i][1]) =>
                    StringsPreserved(x.o[i][2], DictGet(y.o, x.o[i][1], Null))
    ELSE TRUE

(* C15 String values are preserved: whatever the string and the level, the
   decoded document holds that string at the position the document encoded
   holds it. *)
C15_StringsPreserved ==
    (op = "toon_to_json" /\ exc = "none") => StringsPreserved(data, json_out.tree)

(* a document built from empty arrays, empty objects and nulls only *)
EmptyOnly(d) == \A n \in Nodes(d) : IsNull(n) \/ IsList(n) \/ IsDict(n)
(* such a document with "~" for each null and each key abbreviated *)
RECURSIVE Tokenised(_)
Tokenised(d) ==
    IF IsNull(d) THEN Str("~")
    ELSE IF IsList(d) THEN Arr([i \in 1..Len(d.a) |-> Tokenised(d.a[i])])
    ELSE IF IsDict(d)
    THEN Obj([i \in 1..Len(d.o) |-> <<abbreviate(d.o[i][1]), Tokenised(d.o[i][2])>>])
    ELSE d

(* C16 Empty arrays and empty objects are encoded as themselves wherever
   they occur, elements of an array included, never inside a schema block,
   and a document built from empty arrays, empty objects and nulls decodes
   to itself. *)
C16_EmptyStructures ==
    (op = "toon_to_json" /\ EmptyOnly(data)) =>
        /\ FedBody = Tokenised(data)
        /\ Blocks(FedBody) = {}
        /\ exc = "none" /\ DocEq(json_out.tree, data)

(***************************************************************************)
(* Properties of the analyzer, continued                                   *)
(***************************************************************************)
Planned == op = "get_compression_strategy" /\ exc = "none"
(* the sum of what the findings of the returned strategy add, before the
   custom abbreviations *)
PatternSavings == DAddAll(<<0, 0>>, MapSeq(returned.patterns, LAMBDA p : strategy_step(p).savings))

(* C17 The expected savings of a returned strategy never exceed 0.85, and
   the recommended level follows from these capped savings s: 4 when
   s > 0.6, 3 when 0.4 < s <= 0.6, 2 when 0.2 < s <= 0.4, 1 otherwise; the
   level is always in 1..4. *)
C17_SavingsCapAndLevel ==
    Planned =>
        /\ ~DLess(Float["0.85"], returned.expected_savings)
        /\ returned.recommended_level \in 1..4
        /\ returned.recommended_level =
               IF DLess(Float["0.6"], returned.expected_savings) THEN 4
               ELSE IF DLess(Float["0.4"], returned.expected_savings) THEN 3
               ELSE IF DLess(Float["0.2"], returned.expected_savings) THEN 2 ELSE 1
(* a strategy whose findings add up to more than 0.85 *)
C17_Witness ==
    /\ Planned
    /\ DLess(Float["0.85"], PatternSavings)
    /\ returned.expected_savings = Float["0.85"]
    /\ returned.recommended_level = 4

(* the findings of the returned strategy of the given types *)
Findings(types) == {p \in SeqToSet(returned.patterns) : p.pattern_type \in types}

(* C18 Each flag of a returned strategy is true exactly when a finding
   triggers it: use_schema_compression iff a consistent_schema_array finding
   has confidence > 0.8, use_partial_schema iff one has confidence in
   (0.5, 0.8], use_reference_compression iff a repeated_structure finding
   has count >= 3, use_string_dictionary iff there is an enum_values
   finding, use_value_compression iff there is a time_series or
   database_record finding. *)
C18_FlagsFollowFindings ==
    Planned =>
        /\ returned.use_schema_compression <=>
               \E p \in Findings({"consistent_schema_array"}) : RLess(R(8, 10), p.confidence)
        /\ returned.use_partial_schema <=>
               \E p \in Findings({"consistent_schema_array"}) :
                   RLess(R(5, 10), p.confidence) /\ ~RLess(R(8, 10), p.confidence)
        /\ returned.use_reference_compression <=>
               \E p \in Findings({"repeated_structure"}) : p.count >= 3
        /\ returned.use_string_dictionary <=> Findings({"enum_values"}) # {}
        /\ returned.use_value_compression <=>
               Findings({"time_series", "database_record"}) # {}
(* a strategy with a schema array of confidence exactly 0.8: partial schema
   without schema compression, with references and a dictionary *)
C18_Witness ==
    /\ Planned
    /\ \E p \in Findings({"consistent_schema_array"}) : REq(p.confidence, R(8, 10))
    /\ returned.use_partial_schema /\ ~returned.use_schema_compression
    /\ returned.use_reference_compression /\ returned.use_string_dictionary
    /\ ~returned.use_value_compression

(* the objects and arrays of a document with their JSONPath locations *)
RECURSIVE Containers(_, _)
Containers(d, path) ==
    IF IsDict(d)
    THEN {<<path, d>>} \cup UNION {Containers(d.o[i][2], path \o "." \o d.o[i][1]) :
                                      i \in 1..Len(d.o)}
    ELSE IF IsList(d)
    THEN {<<path, d>>} \cup UNION {Containers(d.a[i], path \o "[" \o IntToStr(i - 1) \o "]") :
                                      i \in 1..Len(d.a)}
    ELSE {}
(* more than 60% of the keys of a nested template are keys of the object *)
MatchesTemplate(obj, template) ==
    IsDict(obj) /\ 10 * Cardinality({k \in SeqToSet(template) : DictHas(obj.o, k)})
                     > 6 * Len(template)

(* C19 analyze returns a NESTED_* finding located at every object-valued
   child, of any object at any depth of the document, whose keys match more
   than 60% of a nested template. *)
C19_NestedTemplates ==
    op = "analyze" =>
        \A n \in Containers(input, "$") :
            IsDict(n[2]) =>
                \A i \in 1..Len(n[2].o), t \in 1..Len(NESTED_PATTERNS) :
                    MatchesTemplate(n[2].o[i][2], NESTED_PATTERNS[t][2]) =>
                        \E p \in SeqToSet(detected_patterns) :
                            /\ StartsWith(p.pattern_type, "nested_")
                            /\ p.location = n[1] \o "." \o n[2].o[i][1]

(* more than half of the elements are null *)
MostlyNull(values) == 2 * Cardinality({i \in 1..Len(values) : IsNull(values[i])}) > Len(values)
IsSparse(d) ==
    \/ IsList(d) /\ Len(d.a) > 10 /\ MostlyNull(d.a)
    \/ IsDict(d) /\ Len(d.o) > 5 /\ MostlyNull(Values(d.o))
NullFraction(d) ==
    IF IsList(d) THEN R(NullCount(d.a), Len(d.a)) ELSE R(NullCount(Values(d.o)), Len(d.o))

(* C20 analyze returns a sparse_array finding for every sparse container
   of the document, also below a key of the root object: an array of more
   than 10 elements or an object of more than 5 keys with more than half of
   the values null; its confidence is the fraction of nulls. *)
C20_SparseContainers ==
    op = "analyze" =>
        \A n \in Containers(input, "$") :
            IsSparse(n[2]) =>
                \E p \in SeqToSet(detected_patterns) :
                    /\ p.pattern_type = "sparse_array" /\ p.location = n[1]
                    /\ REq(p.confidence, NullFraction(n[2]))

Analyzed == op \in {"analyze", "get_compression_strategy"}
IsScalar(v) == ~IsDict(v) /\ ~IsList(v)
ScalarStrings(a) == {PyStr(a[i]) : i \in {j \in 1..Len(a) : IsScalar(a[j])}}
EnumFindingsAt(location) ==
    {p \in SeqToSet(detected_patterns) : p.pattern_type = "enum_values" /\ p.location = location}

(* C21 An enum_values finding is emitted for an array exactly when it has
   more than 5 elements and the strings of its scalar elements have fewer
   than 30% unique values, with confidence 1 - unique/total; an array
   without scalar elements (objects or arrays only) never gets the finding,
   and so never sets use_string_dictionary. *)
C21_EnumValues ==
    (Analyzed /\ IsDict(input)) =>
        \A i \in 1..Len(input.o) :
            IsList(input.o[i][2]) =>
                /\ (\E j \in 1..Len(input.o[i][2].a) : IsScalar(input.o[i][2].a[j])) =>
                       /\ EnumFindingsAt("$." \o input.o[i][1]) # {} <=>
                              /\ Len(input.o[i][2].a) > 5
                              /\ 10 * Cardinality(ScalarStrings(input.o[i][2].a))
                                     < 3 * Len(input.o[i][2].a)
                       /\ \A p \in EnumFindingsAt("$." \o input.o[i][1]) :
                              REq(p.confidence,
                                  R(Len(input.o[i][2].a) - Cardinality(ScalarStrings(input.o[i][2].a)),
                                    Len(input.o[i][2].a)))
                /\ (\A j \in 1..Len(input.o[i][2].a) : ~IsScalar(input.o[i][2].a[j])) =>
                       EnumFindingsAt("$." \o input.o[i][1]) = {}

(* the objects of the analyzed document that have the key set of obj *)
SameShape(obj) ==
    {n \in Containers(input, "$") : IsDict(n[2]) /\ KeySet(n[2]) = KeySet(obj)}
(* the positions of the repeated_structure findings located at one of them *)
ShapeFindings(obj) ==
    {i \in 1..Len(detected_patterns) :
        /\ detected_patterns[i].pattern_type = "repeated_structure"
        /\ \E n \in SameShape(obj) : n[1] = detected_patterns[i].location}

(* C22 For every object key set, the empty one included, that occurs at
   least 3 times in the document, analyze returns exactly one
   repeated_structure finding: its count is the number of occurrences, its
   confidence min(count/10, 1), its potential min(0.5 + count/20, 0.85).
   A key set occurring fewer than 3 times gets none; different key sets
   are never counted together. *)
C22_RepeatedStructure ==
    op = "analyze" =>
        \A n \in Containers(input, "$") :
            IsDict(n[2]) =>
                IF Cardinality(SameShape(n[2])) >= 3
                THEN /\ Cardinality(ShapeFindings(n[2])) = 1
                     /\ \A i \in ShapeFindings(n[2]) :
                            /\ detected_patterns[i].count = Cardinality(SameShape(n[2]))
                            /\ REq(detected_patterns[i].confidence,
                                   RMin(R(Cardinality(SameShape(n[2])), 10), R(1, 1)))
                            /\ REq(detected_patterns[i].compression_potential,
                                   RMin(R(10 + Cardinality(SameShape(n[2])), 20), R(85, 100)))
                ELSE ShapeFindings(n[2]) = {}

(* an object of several keys, all longer than 3 characters, that begin with
   the same 4 characters *)
CommonPrefixKeys(d) ==
    /\ IsDict(d) /\ Len(d.o) >= 2
    /\ \A i \in 1..Len(d.o) :
           Len(d.o[i][1]) > 3 /\ SubSeq(d.o[i][1], 1, 4) = SubSeq(d.o[1][1], 1, 4)

(* C23 After analyze of an object whose keys are several distinct names of
   more than 3 characters with a common prefix, such as product_* keys,
   suggest_custom_abbreviations returns a mapping that is not empty. *)
C23_PrefixSuggestions ==
    (op = "suggest_custom_abbreviations" /\ nesting_depths # <<>> /\ CommonPrefixKeys(input)) =>
        (exc = "none" /\ IsDict(returned) /\ Len(returned.o) > 0)

(***************************************************************************)
(* Properties of the codec: metrics, strings, partial schemas, caches      *)
(***************************************************************************)
(* the "d" field of the envelope last returned by json_to_toon, unwrapped *)
ToonBody == DictGet(InnerEnvelope(toon).o, "d", Null)
IsBlock(n) == IsDict(n) /\ DictHas(n.o, "_sch") /\ DictHas(n.o, "_dat")
(* the number of schema blocks in a tree, equal blocks counted apart *)
RECURSIVE BlockCount(_)
BlockCount(d) ==
    (IF IsBlock(d) THEN 1 ELSE 0)
    + (IF IsList(d) THEN Sum([i \in 1..Len(d.a) |-> BlockCount(d.a[i])])
       ELSE IF IsDict(d) THEN Sum([i \in 1..Len(d.o) |-> BlockCount(d.o[i][2])])
       ELSE 0)
(* the entries of the schema headers of a tree *)
HeaderEntries(d) == UNION {{e.s : e \in SeqToSet(DictGet(b.o, "_sch", Null).a)} : b \in Blocks(d)}
(* keys of the document that the envelope shows under their code *)
AbbreviatedKeys ==
    {k \in KeysIn(data) : abbreviate(k) # k
                          /\ abbreviate(k) \in KeysIn(ToonBody) \cup HeaderEntries(ToonBody)}

(* C24 calculate_metrics counts the techniques applied: after an encode in
   which a key was replaced by its code in the output, as an object key or
   as an entry of a schema header, abbreviations_used > 0; and
   schema_compressions is the number of schema blocks emitted. *)
C24_MetricsCountTechniques ==
    op = "json_to_toon" =>
        /\ AbbreviatedKeys # {} => calculate_metrics(Self("c1")).abbreviations_used > 0
        /\ calculate_metrics(Self("c1")).schema_compressions = BlockCount(ToonBody)

(* the value-pattern matcher classifies the string *)
Classified(s) == MatchIsoTimestamp(s) \/ MatchUuid(s) \/ MatchEmail(s)
(* "$" + kind code + ":" + s, for some kind code *)
Tagged(out, s) ==
    /\ Len(out) > Len(s) + 2 /\ Char(out, 1) = "$"
    /\ SubSeq(out, Len(out) - Len(s), Len(out)) = ":" \o s
InDictionary(s) == \E i \in 1..Len(string_dict["c1"]) : string_dict["c1"][i][2] = s

(* C25 String priority: at AGGRESSIVE and EXTREME a string with an entry in
   the string dictionary is emitted as its reference; otherwise a string
   the value-pattern matcher classifies (the documents hold timestamps,
   UUIDs and an e-mail address) is emitted as tag prefix, kind code, ":"
   and the string; otherwise it is emitted unchanged.  Below AGGRESSIVE
   every string is emitted unchanged. *)
C25_StringPriority ==
    op = "json_to_toon" =>
        \A n \in {m \in Nodes(data) : IsStr(m)} :
            IF level["c1"] < AGGRESSIVE THEN compress_string(Self("c1"), n) = n
            ELSE IF InDictionary(n)
            THEN compress_string(Self("c1"), n) = Str("@" \o DictIdOf(string_dict["c1"], n))
            ELSE IF Classified(n.s) THEN Tagged(compress_string(Self("c1"), n).s, n.s)
            ELSE compress_string(Self("c1"), n) = n

(* a non-empty array of objects whose key sets are not all the same *)
MixedArray(d) ==
    /\ IsList(d) /\ Len(d.a) > 0 /\ AllDicts(d.a)
    /\ \E i \in 1..Len(d.a) : KeySet(d.a[i]) # KeySet(d.a[1])
Shared(d) == {k \in KeySet(d.a[1]) : \A i \in 1..Len(d.a) : k \in KeySet(d.a[i])}
FedRows == DictGet(FedBody.o, "_dat", Null).a
(* row i of the block holds the shared values of element i and, when the
   element has other keys, one side map of exactly those keys *)
PartialRow(row, item, shared) ==
    /\ IsList(row)
    /\ Len(row.a) = Cardinality(shared) + (IF KeySet(item) = shared THEN 0 ELSE 1)
    /\ \A j \in 1..Cardinality(shared) :
           IsNum(DictGet(item.o, SortedSet(shared)[j], Null)) =>
               row.a[j] = DictGet(item.o, SortedSet(shared)[j], Null)
    /\ KeySet(item) # shared =>
           /\ IsDict(row.a[Len(row.a)]) /\ Keys(row.a[Len(row.a)].o) = <<"_opt">>
           /\ KeySet(row.a[Len(row.a)].o[1][2]) = {abbreviate(k) : k \in KeySet(item) \ shared}

(* C26 Partial schema: at AGGRESSIVE or above, an array of objects with
   differing key sets and at least 3 keys common to all is encoded as a
   block whose "_sch" is the abbreviated sorted intersection and whose rows
   hold the common values followed, only for elements with other keys, by
   one "_opt" side map of those keys; with fewer than 3 common keys, or
   below AGGRESSIVE, the array is encoded element by element; decoding a
   partial-schema block restores every element with all of its keys. *)
C26_PartialSchema ==
    (op = "toon_to_json" /\ MixedArray(data)) =>
        IF level["c1"] >= AGGRESSIVE /\ Cardinality(Shared(data)) >= 3
        THEN /\ IsDict(FedBody) /\ Keys(FedBody.o) = <<"_sch", "_dat">>
             /\ DictGet(FedBody.o, "_sch", Null)
                    = Arr(MapSeq(SortedSet(Shared(data)), LAMBDA k : Str(abbreviate(k))))
             /\ Len(FedRows) = Len(data.a)
             /\ \A i \in 1..Len(data.a) : PartialRow(FedRows[i], data.a[i], Shared(data))
             /\ exc = "none"
             /\ IsList(json_out.tree) /\ Len(json_out.tree.a) = Len(data.a)
             /\ \A i \in 1..Len(data.a) : DocEq(json_out.tree.a[i], data.a[i])
        ELSE /\ IsList(FedBody) /\ Len(FedBody.a) = Len(data.a)
             /\ \A i \in 1..Len(data.a) :
                    FedBody.a[i] = convert_to_toon(Self("c1"), data.a[i])

(* the objects of a document in pre-order, equal objects listed apart *)
RECURSIVE ObjectsIn(_)
ObjectsIn(d) ==
    IF IsDict(d)
    THEN <<d>> \o Flatten([i \in 1..Len(d.o) |-> ObjectsIn(d.o[i][2])])
    ELSE IF IsList(d) THEN Flatten([i \in 1..Len(d.a) |-> ObjectsIn(d.a[i])])
    ELSE <<>>
(* the first object of each key set that at least 3 objects have, in the
   order of first occurrence *)
Representatives(objs) ==
    SelectSeq(MapSeq(SelectSeq(Indices(objs),
                               LAMBDA i : \A j \in 1..(i - 1) :
                                              KeySet(objs[j]) # KeySet(objs[i])),
                     LAMBDA i : objs[i]),
              LAMBDA o : Cardinality({j \in 1..Len(objs) : KeySet(objs[j]) = KeySet(o)}) >= 3)
ExpectedRefs(d) ==
    [j \in 1..Len(Representatives(ObjectsIn(d))) |->
        <<"r" \o IntToStr(j - 1), Representatives(ObjectsIn(d))[j]>>]

(* C27 After json_to_toon at STANDARD or above the reference cache holds
   exactly one entry per object key set that occurs at least 3 times in the
   document, keyed r0, r1, ... in the order of first occurrence, each
   holding the first object in pre-order with that key set; at MINIMAL the
   cache is empty; the envelope has a "_refs" field exactly when the cache
   is not empty. *)
C27_ReferenceCache ==
    op = "json_to_toon" =>
        /\ ref_cache["c1"] = (IF level["c1"] >= STANDARD THEN ExpectedRefs(data) ELSE <<>>)
        /\ DictHas(InnerEnvelope(toon).o, "_refs") <=> (Len(ref_cache["c1"]) > 0)
(* a cache of two entries: two key sets, each on three objects *)
C27_Witness ==
    /\ op = "json_to_toon" /\ level["c1"] >= STANDARD
    /\ Len(ref_cache["c1"]) = 2
    /\ KeySet(ref_cache["c1"][1][2]) # KeySet(ref_cache["c1"][2][2])
    /\ DictHas(InnerEnvelope(toon).o, "_refs")
(* the other two cases: no cache at MINIMAL for a document with a repeated
   key set, and no "_refs" field for a document without one *)
C27_WitnessMinimal ==
    /\ op = "json_to_toon" /\ level["c1"] = MINIMAL
    /\ Len(ExpectedRefs(data)) > 0 /\ ref_cache["c1"] = <<>>
    /\ ~DictHas(InnerEnvelope(toon).o, "_refs")

(* the same document encoded by a new converter of the same level *)
FreshCall == json_to_toon(init(level["c1"]), data)

(* C28 Every json_to_toon call on a converter that has encoded before
   leaves the converter (reference cache, string dictionary, id counters,
   metrics) and returns the envelope exactly as a new converter of the same
   level encoding the same document does, whatever was encoded before. *)
C28_PerCallReset ==
    Encoded => /\ toon = FreshCall.result
               /\ Self("c1") = FreshCall.self
               /\ calculate_metrics(Self("c1")) = calculate_metrics(FreshCall.self)
(* a second call on a converter whose first call filled the reference cache,
   returning another envelope with its own entry r0 *)
C28_Witness ==
    /\ op = "re_encode"
    /\ DictHas(InnerEnvelope(prev_toon).o, "_refs")
    /\ toon # prev_toon
    /\ Len(ref_cache["c1"]) > 0 /\ ref_cache["c1"][1][1] = "r0"
    /\ ref_counter["c1"] = Len(ref_cache["c1"])

(***************************************************************************)
(* Properties of the server                                                *)
(***************************************************************************)
IsError(resp) == Len(resp) = 1 /\ resp[1].text.kind = "error"
LevelSum == Sum([l \in 1..4 |-> stats.compression_by_level[l]])
(* the sizes of the JSON texts of the documents the last call converted *)
ConvertedSizes ==
    IF IsError(response) THEN <<>>
    ELSE IF tool = "convert_to_toon" THEN <<text_len(DictGet(arguments.o, "json_data", Null))>>
    ELSE IF tool = "batch_convert"
    THEN MapSeq(DictGet(arguments.o, "json_array", Null).tree.a, LAMBDA item : dumps_len(item, 2, 2))
    ELSE <<>>

(* C29 After any sequence of tool calls total_conversions equals the sum of
   the compression_by_level counters of levels 1..4, and a call that
   changes total_bytes_saved adds the original sizes of the documents it
   converted to total_original_bytes. *)
C29_StatsConsistent ==
    [][/\ stats.total_conversions' = LevelSum'
       /\ stats.total_bytes_saved' # stats.total_bytes_saved =>
            stats.total_original_bytes' = stats.total_original_bytes + Sum(ConvertedSizes')]_vars
(* both hold as long as batch_convert has converted nothing *)
C29_WithoutBatch ==
    [][(tool' = "batch_convert" /\ ~IsError(response')) \/
       (/\ stats.total_conversions = LevelSum => stats.total_conversions' = LevelSum'
        /\ stats.total_bytes_saved' # stats.total_bytes_saved =>
             stats.total_original_bytes' = stats.total_original_bytes + Sum(ConvertedSizes'))]_vars

(* the failing calls: an unknown tool, a missing argument, a text that is
   not JSON, a level outside 1..4, a json_array that is not a non-empty
   array of documents, an envelope toon_to_json rejects *)
ToolNames == {"convert_to_toon", "convert_to_json", "analyze_patterns", "calculate_metrics",
              "batch_convert", "get_server_stats"}
TextArgument == IF tool = "convert_to_json" THEN "toon_data"
                ELSE IF tool = "batch_convert" THEN "json_array" ELSE "json_data"
TextGiven == DictGet(arguments.o, TextArgument, Garbage)
FailingCall ==
    \/ tool \notin ToolNames
    \/ /\ tool # "get_server_stats"
       /\ \/ ~DictHas(arguments.o, TextArgument)
          \/ TextGiven.kind # "json"
    \/ /\ tool \in {"convert_to_toon", "calculate_metrics", "batch_convert"}
       /\ DictHas(arguments.o, "level")
       /\ DictGet(arguments.o, "level", Null).n \notin 1..4
    \/ /\ tool = "batch_convert" /\ TextGiven.kind = "json"
       /\ \/ ~IsList(TextGiven.tree)
          \/ Len(TextGiven.tree.a) = 0
          \/ \E i \in 1..Len(TextGiven.tree.a) : IsStr(TextGiven.tree.a[i])
    \/ /\ tool = "convert_to_json" /\ TextGiven.kind = "json"
       /\ (~IsDict(TextGiven.tree) \/ ~DictHas(TextGiven.tree.o, "_toon"))

(* C30 call_tool returns a list of one text for every call; for a failing
   call the text is an "Error: ..." text, and a call that returns an error
   text leaves the server statistics as they were before it. *)
C30_FailuresContained ==
    [][/\ Len(response') = 1 /\ response'[1].type = "text"
       /\ FailingCall' => IsError(response')
       /\ IsError(response') => stats' = stats]_vars
(* a batch whose second item fails, after calls that counted conversions
   and patterns *)
C30_Witness ==
    /\ tool = "batch_convert" /\ FailingCall /\ IsError(response)
    /\ TextGiven.kind = "json" /\ IsList(TextGiven.tree) /\ Len(TextGiven.tree.a) = 2
    /\ stats.total_conversions > 0 /\ Len(stats.patterns_detected) > 0
====
